---- MODULE Spec2Model ----
(***************************************************************************)
(* Model of dago-libs: the graph domain package (pkg/domain/graph: Graph,  *)
(* Node, ExecutorNode, RouterNode, Edge and their operations), the State   *)
(* map (pkg/domain/state), the tracer (pkg/utils/tracing) and GetEnvBool   *)
(* (pkg/utils/config).                                                     *)
(* Go values are modelled as records; a pointer's identity is the `ref`    *)
(* field of a node record.  A nil map, a nil interface and a nil pointer   *)
(* are distinct values from an empty map and from any object.              *)
(***************************************************************************)
EXTENDS Integers, Sequences, FiniteSets, TLC

VARIABLES g, last, removed, clone, state, tracer, env, calls

vars == <<g, last, removed, clone, state, tracer, env, calls>>

----------------------------------------------------------------------------
(* Bounds of the model *)

\* longest edge sequence AddEdge or an assignment to g.Edges is allowed to build
MaxEdges == 2

\* the most routes a router node is given
MaxRoutes == 3

\* the most spans a caller starts from one another's contexts
MaxSpans == 3

\* the most root spans a caller starts and marks
MaxRootSpans == 2

\* the most map objects json.Unmarshal makes for one caller of FromJSON
MaxRefs == 3

----------------------------------------------------------------------------
(* Identifiers: Go strings; "" is the empty string *)

Ids == {"a", "b", "c"}

IdArgs == Ids \cup {""}

----------------------------------------------------------------------------
(* Errors: the kinds of value a call can end with.                         *)
(*   nil              no error                                             *)
(*   error            fmt.Errorf without %w                                *)
(*   ValidationError  &ValidationError{Field, Message}                     *)
(*   wrapped          fmt.Errorf("...: %w", err) around a ValidationError; *)
(*                    field is the wrapped error's Field                   *)
(*   panic            a Go run-time panic                                  *)

Err(kind, field, msg, index, id) ==
    [kind |-> kind, field |-> field, msg |-> msg, index |-> index, id |-> id]

Nil == Err("nil", "", "", -1, "")

ValidationError(field, msg) == Err("ValidationError", field, msg, -1, "")

Errorf(msg) == Err("error", "", msg, -1, "")

Wrapf(msg, index, id, err) == Err("wrapped", err.field, msg, index, id)

Panic(msg) == Err("panic", "", msg, -1, "")

IsError(e) == e.kind \in {"error", "ValidationError", "wrapped"}

IsValidationError(e) == e.kind = "ValidationError"

----------------------------------------------------------------------------
(* Nodes: values of the interface type Node *)

NodeTypeExecutor == "executor"

NodeTypeRouter == "router"

\* the nil interface value
NilNode ==
    [ref |-> 0, type |-> "nil", ID |-> "", ExecutorType |-> "",
     Routes |-> <<>>, DefaultRoute |-> ""]

\* a non-nil interface holding a nil *ExecutorNode
TypedNilNode ==
    [ref |-> 0, type |-> "typednil", ID |-> "", ExecutorType |-> "",
     Routes |-> <<>>, DefaultRoute |-> ""]

ExecutorNode(ref, id, executorType) ==
    [ref |-> ref, type |-> NodeTypeExecutor, ID |-> id,
     ExecutorType |-> executorType, Routes |-> <<>>, DefaultRoute |-> ""]

\* Routes is the sequence of the routes' Target fields
RouterNode(ref, id, routes, defaultRoute) ==
    [ref |-> ref, type |-> NodeTypeRouter, ID |-> id,
     ExecutorType |-> "", Routes |-> routes, DefaultRoute |-> defaultRoute]

\* the node objects the callers hold
NodePool ==
    { ExecutorNode(1, "a", "llm"),
      ExecutorNode(2, "a", "llm"),
      ExecutorNode(3, "b", "llm"),
      ExecutorNode(4, "b", ""),
      RouterNode(5, "c", <<>>, "x"),
      RouterNode(6, "c", <<>>, ""),
      ExecutorNode(7, "", "llm") }

NodeArgs == NodePool \cup {NilNode, TypedNilNode}

IsNilPointer(node) == node.type \in {"nil", "typednil"}

\* BaseNode.GetID; called only on a non-nil receiver
GetID(node) == node.ID

ExecutorNodeValidate(n) ==
    IF n.ID = "" THEN ValidationError("id", "executor node ID cannot be empty")
    ELSE IF n.ExecutorType = ""
    THEN ValidationError("executor_type", "executor type cannot be empty")
    ELSE Nil

\* RouterNode.Validate without the loop over the routes
RouterNodeValidateNoTargetCheck(n) ==
    IF n.ID = "" THEN ValidationError("id", "router node ID cannot be empty")
    ELSE IF Len(n.Routes) = 0 /\ n.DefaultRoute = ""
    THEN ValidationError("routes",
                         "router must have at least one route or a default route")
    ELSE Nil

RouterNodeValidate(n) ==
    IF n.ID = "" THEN ValidationError("id", "router node ID cannot be empty")
    ELSE IF Len(n.Routes) = 0 /\ n.DefaultRoute = ""
    THEN ValidationError("routes",
                         "router must have at least one route or a default route")
    ELSE IF \E i \in 1..Len(n.Routes) : n.Routes[i] = ""
    THEN ValidationError("routes", "route target cannot be empty at index")
    ELSE Nil

\* node.Validate() through the interface
NodeValidate(node) ==
    IF IsNilPointer(node) THEN Panic("nil pointer dereference")
    ELSE IF node.type = NodeTypeExecutor THEN ExecutorNodeValidate(node)
    ELSE RouterNodeValidate(node)

----------------------------------------------------------------------------
(* Edges: values of type *Edge *)

NilEdge == [isNil |-> TRUE, From |-> "", To |-> ""]

NewEdge(from, to) == [isNil |-> FALSE, From |-> from, To |-> to]

EdgeArgs == {NewEdge(f, t) : f \in IdArgs, t \in IdArgs} \cup {NilEdge}

\* Edge.Validate without the self-loop check
EdgeValidateNoSelfLoop(e) ==
    IF e.From = ""
    THEN ValidationError("from", "edge source node ID cannot be empty")
    ELSE IF e.To = ""
    THEN ValidationError("to", "edge target node ID cannot be empty")
    ELSE Nil

\* Edge.Validate; called only on a non-nil receiver
EdgeValidate(e) ==
    IF e.From = ""
    THEN ValidationError("from", "edge source node ID cannot be empty")
    ELSE IF e.To = ""
    THEN ValidationError("to", "edge target node ID cannot be empty")
    ELSE IF e.From = e.To
    THEN ValidationError("from/to", "edge cannot connect a node to itself")
    ELSE Nil

----------------------------------------------------------------------------
(* Go maps: isNil distinguishes the nil map from an empty one *)

EmptyFun == [k \in {} |-> NilNode]

MakeMap == [isNil |-> FALSE, m |-> EmptyFun]

NilMap == [isNil |-> TRUE, m |-> EmptyFun]

\* _, exists := m[k]
MapHas(mp, k) == k \in DOMAIN mp.m

\* m[k], the zero value when k is absent
MapGet(mp, k) == IF k \in DOMAIN mp.m THEN mp.m[k] ELSE NilNode

\* m[k] = v on a non-nil map
MapPut(mp, k, v) ==
    [mp EXCEPT !.m = [x \in DOMAIN mp.m \cup {k} |-> IF x = k THEN v ELSE mp.m[x]]]

\* delete(m, k); a no-op on a nil map and on an absent key
MapDelete(mp, k) ==
    [mp EXCEPT !.m = [x \in DOMAIN mp.m \ {k} |-> mp.m[x]]]

MapLen(mp) == Cardinality(DOMAIN mp.m)

----------------------------------------------------------------------------
(* Graph *)

\* the identifier uuid.New().String() returns
GeneratedID == "uuid-1"

NewGraph(name) ==
    [ID |-> GeneratedID, Name |-> name, Description |-> "",
     Nodes |-> MakeMap, Edges |-> <<>>, EntryNode |-> "",
     Metadata |-> {}, Version |-> "1.0"]

\* var g Graph
ZeroGraph ==
    [ID |-> "", Name |-> "", Description |-> "", Nodes |-> NilMap,
     Edges |-> <<>>, EntryNode |-> "", Metadata |-> {}, Version |-> ""]

GetNode(gr, nodeID) == MapGet(gr.Nodes, nodeID)

NodeCount(gr) == MapLen(gr.Nodes)

EdgeCount(gr) == Len(gr.Edges)

\* the value a call returns and the graph it leaves
Outcome(gr, err) == [g |-> gr, err |-> err]

\* AddNode without the duplicate check: the new node replaces the old one
AddNodeNoDupCheck(gr, node) ==
    IF node = NilNode THEN Outcome(gr, Errorf("cannot add nil node"))
    ELSE IF IsNilPointer(node) THEN Outcome(gr, Panic("nil pointer dereference"))
    ELSE IF GetID(node) = ""
    THEN Outcome(gr, ValidationError("node.id", "node ID cannot be empty"))
    ELSE IF NodeValidate(node) # Nil
    THEN Outcome(gr, Wrapf("node validation failed", -1, "", NodeValidate(node)))
    ELSE IF gr.Nodes.isNil
    THEN Outcome(gr, Panic("assignment to entry in nil map"))
    ELSE Outcome([gr EXCEPT !.Nodes = MapPut(gr.Nodes, GetID(node), node)], Nil)

\* AddNode that reports a duplicate only after it has stored the node
AddNodeStoreFirst(gr, node) ==
    IF node = NilNode THEN Outcome(gr, Errorf("cannot add nil node"))
    ELSE IF IsNilPointer(node) THEN Outcome(gr, Panic("nil pointer dereference"))
    ELSE IF GetID(node) = ""
    THEN Outcome(gr, ValidationError("node.id", "node ID cannot be empty"))
    ELSE IF gr.Nodes.isNil
    THEN Outcome(gr, Panic("assignment to entry in nil map"))
    ELSE IF MapHas(gr.Nodes, GetID(node))
    THEN Outcome([gr EXCEPT !.Nodes = MapPut(gr.Nodes, GetID(node), node)],
                 ValidationError("node.id", "node already exists"))
    ELSE IF NodeValidate(node) # Nil
    THEN Outcome([gr EXCEPT !.Nodes = MapPut(gr.Nodes, GetID(node), node)],
                 Wrapf("node validation failed", -1, "", NodeValidate(node)))
    ELSE Outcome([gr EXCEPT !.Nodes = MapPut(gr.Nodes, GetID(node), node)], Nil)

\* AddNode that makes the first node of a graph its entry node
AddNodeSetsEntry(gr, node) ==
    IF node = NilNode THEN Outcome(gr, Errorf("cannot add nil node"))
    ELSE IF IsNilPointer(node) THEN Outcome(gr, Panic("nil pointer dereference"))
    ELSE IF GetID(node) = ""
    THEN Outcome(gr, ValidationError("node.id", "node ID cannot be empty"))
    ELSE IF MapHas(gr.Nodes, GetID(node))
    THEN Outcome(gr, ValidationError("node.id", "node already exists"))
    ELSE IF NodeValidate(node) # Nil
    THEN Outcome(gr, Wrapf("node validation failed", -1, "", NodeValidate(node)))
    ELSE IF gr.Nodes.isNil
    THEN Outcome(gr, Panic("assignment to entry in nil map"))
    ELSE Outcome([gr EXCEPT !.Nodes = MapPut(gr.Nodes, GetID(node), node),
                            !.EntryNode = IF gr.EntryNode = "" THEN GetID(node)
                                          ELSE gr.EntryNode],
                 Nil)

AddNode(gr, node) ==
    IF node = NilNode THEN Outcome(gr, Errorf("cannot add nil node"))
    ELSE IF IsNilPointer(node) THEN Outcome(gr, Panic("nil pointer dereference"))
    ELSE IF GetID(node) = ""
    THEN Outcome(gr, ValidationError("node.id", "node ID cannot be empty"))
    ELSE IF MapHas(gr.Nodes, GetID(node))
    THEN Outcome(gr, ValidationError("node.id", "node already exists"))
    ELSE IF NodeValidate(node) # Nil
    THEN Outcome(gr, Wrapf("node validation failed", -1, "", NodeValidate(node)))
    ELSE IF gr.Nodes.isNil
    THEN Outcome(gr, Panic("assignment to entry in nil map"))
    ELSE Outcome([gr EXCEPT !.Nodes = MapPut(gr.Nodes, GetID(node), node)], Nil)

HasNilEdge(s) == \E i \in 1..Len(s) : s[i].isNil

\* RemoveNode that drops only the edges leaving the node
RemoveNodeOutgoingOnly(gr, nodeID) ==
    LET deleted == [gr EXCEPT !.Nodes = MapDelete(gr.Nodes, nodeID)]
        Keep(edge) == edge.From # nodeID
    IN  IF HasNilEdge(gr.Edges)
        THEN Outcome(deleted, Panic("nil pointer dereference"))
        ELSE Outcome([deleted EXCEPT !.Edges = SelectSeq(gr.Edges, Keep)], Nil)

\* RemoveNode that filters the edges and forgets to delete the node
RemoveNodeKeepsNode(gr, nodeID) ==
    LET Keep(edge) == edge.From # nodeID /\ edge.To # nodeID
    IN  IF HasNilEdge(gr.Edges)
        THEN Outcome(gr, Panic("nil pointer dereference"))
        ELSE Outcome([gr EXCEPT !.Edges = SelectSeq(gr.Edges, Keep)], Nil)

RemoveNode(gr, nodeID) ==
    LET deleted == [gr EXCEPT !.Nodes = MapDelete(gr.Nodes, nodeID)]
        Keep(edge) == edge.From # nodeID /\ edge.To # nodeID
    IN  IF HasNilEdge(gr.Edges)
        THEN Outcome(deleted, Panic("nil pointer dereference"))
        ELSE Outcome([deleted EXCEPT !.Edges = SelectSeq(gr.Edges, Keep)], Nil)

\* AddEdge that verifies the source node only
AddEdgeNoTargetCheck(gr, edge) ==
    IF edge.isNil THEN Outcome(gr, Errorf("cannot add nil edge"))
    ELSE IF EdgeValidate(edge) # Nil
    THEN Outcome(gr, Wrapf("edge validation failed", -1, "", EdgeValidate(edge)))
    ELSE IF GetNode(gr, edge.From) = NilNode
    THEN Outcome(gr, ValidationError("edge.from", "source node does not exist"))
    ELSE Outcome([gr EXCEPT !.Edges = Append(gr.Edges, edge)], Nil)

\* AddEdge that puts the new edge in front of the others
AddEdgePrepend(gr, edge) ==
    IF edge.isNil THEN Outcome(gr, Errorf("cannot add nil edge"))
    ELSE IF EdgeValidate(edge) # Nil
    THEN Outcome(gr, Wrapf("edge validation failed", -1, "", EdgeValidate(edge)))
    ELSE IF GetNode(gr, edge.From) = NilNode
    THEN Outcome(gr, ValidationError("edge.from", "source node does not exist"))
    ELSE IF GetNode(gr, edge.To) = NilNode
    THEN Outcome(gr, ValidationError("edge.to", "target node does not exist"))
    ELSE Outcome([gr EXCEPT !.Edges = <<edge>> \o gr.Edges], Nil)

\* AddEdge that leaves the graph alone when it already has an edge between
\* the same two nodes
AddEdgeDedup(gr, edge) ==
    IF edge.isNil THEN Outcome(gr, Errorf("cannot add nil edge"))
    ELSE IF EdgeValidate(edge) # Nil
    THEN Outcome(gr, Wrapf("edge validation failed", -1, "", EdgeValidate(edge)))
    ELSE IF GetNode(gr, edge.From) = NilNode
    THEN Outcome(gr, ValidationError("edge.from", "source node does not exist"))
    ELSE IF GetNode(gr, edge.To) = NilNode
    THEN Outcome(gr, ValidationError("edge.to", "target node does not exist"))
    ELSE IF \E i \in 1..Len(gr.Edges) :
                gr.Edges[i].From = edge.From /\ gr.Edges[i].To = edge.To
    THEN Outcome(gr, Nil)
    ELSE Outcome([gr EXCEPT !.Edges = Append(gr.Edges, edge)], Nil)

AddEdge(gr, edge) ==
    IF edge.isNil THEN Outcome(gr, Errorf("cannot add nil edge"))
    ELSE IF EdgeValidate(edge) # Nil
    THEN Outcome(gr, Wrapf("edge validation failed", -1, "", EdgeValidate(edge)))
    ELSE IF GetNode(gr, edge.From) = NilNode
    THEN Outcome(gr, ValidationError("edge.from", "source node does not exist"))
    ELSE IF GetNode(gr, edge.To) = NilNode
    THEN Outcome(gr, ValidationError("edge.to", "target node does not exist"))
    ELSE Outcome([gr EXCEPT !.Edges = Append(gr.Edges, edge)], Nil)

\* the edges returned, and the error (a panic on a nil element)
Edges(s, err) == [edges |-> s, err |-> err]

GetOutgoingEdges(gr, nodeID) ==
    LET Keep(edge) == edge.From = nodeID
    IN  IF HasNilEdge(gr.Edges) THEN Edges(<<>>, Panic("nil pointer dereference"))
        ELSE Edges(SelectSeq(gr.Edges, Keep), Nil)

\* GetIncomingEdges that selects on the source of an edge
GetIncomingEdgesByFrom(gr, nodeID) ==
    LET Keep(edge) == edge.From = nodeID
    IN  IF HasNilEdge(gr.Edges) THEN Edges(<<>>, Panic("nil pointer dereference"))
        ELSE Edges(SelectSeq(gr.Edges, Keep), Nil)

GetIncomingEdges(gr, nodeID) ==
    LET Keep(edge) == edge.To = nodeID
    IN  IF HasNilEdge(gr.Edges) THEN Edges(<<>>, Panic("nil pointer dereference"))
        ELSE Edges(SelectSeq(gr.Edges, Keep), Nil)

\* the node loop of Validate: map iteration order is unspecified, so any
\* failing node can be the one the loop meets first
ValidateNodes(gr) ==
    LET m == gr.Nodes.m
        bad == {k \in DOMAIN m : NodeValidate(m[k]) # Nil}
    IN  IF bad = {} THEN {Nil}
        ELSE { IF IsNilPointer(m[k]) THEN Panic("nil pointer dereference")
               ELSE Wrapf("node validation failed", -1, GetID(m[k]),
                          NodeValidate(m[k])) : k \in bad }

\* one iteration of the edge loop of Validate, i counted from 0
ValidateEdge(gr, i) ==
    LET edge == gr.Edges[i + 1]
    IN  IF edge.isNil THEN Panic("nil pointer dereference")
        ELSE IF EdgeValidate(edge) # Nil
        THEN Wrapf("edge validation failed", i, "", EdgeValidate(edge))
        ELSE IF GetNode(gr, edge.From) = NilNode
        THEN ValidationError("edge.from", "edge references non-existent source node")
        ELSE IF GetNode(gr, edge.To) = NilNode
        THEN ValidationError("edge.to", "edge references non-existent target node")
        ELSE Nil

ValidateEdges(gr) ==
    LET bad == {i \in 0..(Len(gr.Edges) - 1) : ValidateEdge(gr, i) # Nil}
    IN  IF bad = {} THEN Nil
        ELSE ValidateEdge(gr, CHOOSE i \in bad : \A j \in bad : i <= j)

\* Validate without the lookup of the entry node
ValidateSkipsEntryLookup(gr) ==
    IF gr.ID = "" THEN {ValidationError("id", "graph ID cannot be empty")}
    ELSE IF MapLen(gr.Nodes) = 0
    THEN {ValidationError("nodes", "graph must have at least one node")}
    ELSE IF gr.EntryNode = ""
    THEN {ValidationError("entry_node", "graph must have an entry node")}
    ELSE IF ValidateNodes(gr) # {Nil} THEN ValidateNodes(gr)
    ELSE {ValidateEdges(gr)}

\* Validate that looks at the entry node before it counts the nodes
ValidateEntryBeforeNodes(gr) ==
    IF gr.ID = "" THEN {ValidationError("id", "graph ID cannot be empty")}
    ELSE IF gr.EntryNode = ""
    THEN {ValidationError("entry_node", "graph must have an entry node")}
    ELSE IF MapLen(gr.Nodes) = 0
    THEN {ValidationError("nodes", "graph must have at least one node")}
    ELSE IF GetNode(gr, gr.EntryNode) = NilNode
    THEN {ValidationError("entry_node", "entry node does not exist")}
    ELSE IF ValidateNodes(gr) # {Nil} THEN ValidateNodes(gr)
    ELSE {ValidateEdges(gr)}

\* Validate that also wants every route target and default route of a router
\* to be a node of the graph
ValidateChecksRoutes(gr) ==
    LET m == gr.Nodes.m
        Names(n) == {n.Routes[i] : i \in 1..Len(n.Routes)}
                    \cup (IF n.DefaultRoute = "" THEN {} ELSE {n.DefaultRoute})
        dangling == \E k \in DOMAIN m :
                        /\ m[k].type = NodeTypeRouter
                        /\ \E target \in Names(m[k]) : ~MapHas(gr.Nodes, target)
    IN  IF gr.ID = "" THEN {ValidationError("id", "graph ID cannot be empty")}
        ELSE IF MapLen(gr.Nodes) = 0
        THEN {ValidationError("nodes", "graph must have at least one node")}
        ELSE IF gr.EntryNode = ""
        THEN {ValidationError("entry_node", "graph must have an entry node")}
        ELSE IF GetNode(gr, gr.EntryNode) = NilNode
        THEN {ValidationError("entry_node", "entry node does not exist")}
        ELSE IF ValidateNodes(gr) # {Nil} THEN ValidateNodes(gr)
        ELSE IF dangling
        THEN {ValidationError("routes", "route target does not exist")}
        ELSE {ValidateEdges(gr)}

\* Graph.Validate: the set of values the call can end with
Validate(gr) ==
    IF gr.ID = "" THEN {ValidationError("id", "graph ID cannot be empty")}
    ELSE IF MapLen(gr.Nodes) = 0
    THEN {ValidationError("nodes", "graph must have at least one node")}
    ELSE IF gr.EntryNode = ""
    THEN {ValidationError("entry_node", "graph must have an entry node")}
    ELSE IF GetNode(gr, gr.EntryNode) = NilNode
    THEN {ValidationError("entry_node", "entry node does not exist")}
    ELSE IF ValidateNodes(gr) # {Nil} THEN ValidateNodes(gr)
    ELSE {ValidateEdges(gr)}

----------------------------------------------------------------------------
(* State (pkg/domain/state): type State map[string]interface{}             *)
(* A stored value is its dynamic Go type and its content; a map value is a *)
(* reference, `ref` names the map object it points to.                     *)

Value(type, str, num, ref, m) ==
    [type |-> type, str |-> str, num |-> num, ref |-> ref, m |-> m]

NilValue == Value("nil", "", 0, 0, EmptyFun)

StringValue(str) == Value("string", str, 0, 0, EmptyFun)

IntValue(num) == Value("int", "", num, 0, EmptyFun)

Float64Value(num) == Value("float64", "", num, 0, EmptyFun)

\* map[string]interface{}{...}
MapValue(ref, m) == Value("map[string]interface {}", "", 0, ref, m)

\* what a State method leaves and returns
StateOutcome(s, err) == [s |-> s, err |-> err]

NewState == MakeMap

Get(s, key) == IF MapHas(s, key) THEN s.m[key] ELSE NilValue

Set(s, key, value) ==
    IF s.isNil THEN StateOutcome(s, Panic("assignment to entry in nil map"))
    ELSE StateOutcome(MapPut(s, key, value), Nil)

Delete(s, key) == MapDelete(s, key)

\* Has that takes a key holding nil for an absent key
HasNonNil(s, key) == MapHas(s, key) /\ s.m[key] # NilValue

Has(s, key) == MapHas(s, key)

Size(s) == MapLen(s)

\* the keys, in no particular order
Keys(s) == DOMAIN s.m

Clear(s) == [s EXCEPT !.m = EmptyFun]

\* Merge that keeps the value the receiver already has for a key
MergeKeepsOwn(s, other) ==
    IF s.isNil /\ Keys(other) # {}
    THEN StateOutcome(s, Panic("assignment to entry in nil map"))
    ELSE StateOutcome([s EXCEPT !.m = [k \in Keys(s) \cup Keys(other) |->
                                          IF k \in Keys(s) THEN s.m[k]
                                          ELSE other.m[k]]],
                      Nil)

\* for k, v := range other { s[k] = v }
Merge(s, other) ==
    IF s.isNil /\ Keys(other) # {}
    THEN StateOutcome(s, Panic("assignment to entry in nil map"))
    ELSE StateOutcome([s EXCEPT !.m = [k \in Keys(s) \cup Keys(other) |->
                                          IF k \in Keys(other) THEN other.m[k]
                                          ELSE s.m[k]]],
                      Nil)

\* JSON values: null, a string, a number, an object
JValue(kind, str, num, m) == [kind |-> kind, str |-> str, num |-> num, m |-> m]

\* json.Marshal of a stored value; an int and a float64 of the same value
\* give the same number
RECURSIVE MarshalValue(_)
MarshalValue(v) ==
    IF v.type = "nil" THEN JValue("null", "", 0, EmptyFun)
    ELSE IF v.type = "string" THEN JValue("string", v.str, 0, EmptyFun)
    ELSE IF v.type \in {"int", "float64"} THEN JValue("number", "", v.num, EmptyFun)
    ELSE JValue("object", "", 0, [k \in DOMAIN v.m |-> MarshalValue(v.m[k])])

\* json.Unmarshal into interface{}: a number becomes a float64 and an object
\* a newly made map[string]interface{}, here the map object `ref`
RECURSIVE UnmarshalValue(_, _)
UnmarshalValue(j, ref) ==
    IF j.kind = "null" THEN NilValue
    ELSE IF j.kind = "string" THEN StringValue(j.str)
    ELSE IF j.kind = "number" THEN Float64Value(j.num)
    ELSE MapValue(ref, [k \in DOMAIN j.m |-> UnmarshalValue(j.m[k], 0)])

\* json.Marshal(s): a nil State is written as null
MarshalState(s) ==
    [isNull |-> s.isNil, m |-> [k \in Keys(s) |-> MarshalValue(s.m[k])]]

\* the map objects the values of a State point to
Refs(s) == {s.m[k].ref : k \in {x \in Keys(s) : s.m[x].type = "map[string]interface {}"}}

\* var copy State; json.Unmarshal(data, &copy): null leaves copy nil; every
\* object among the values becomes a map object that is not in `used`
UnmarshalState(doc, used) ==
    LET objs == {k \in DOMAIN doc.m : doc.m[k].kind = "object"}
        top == IF used = {} THEN 0 ELSE CHOOSE r \in used : \A x \in used : x <= r
        new == CHOOSE f \in [objs -> (top + 1)..(top + Cardinality(objs))] :
                   \A x, y \in objs : x # y => f[x] # f[y]
    IN  IF doc.isNull THEN NilMap
        ELSE [isNil |-> FALSE,
              m |-> [k \in DOMAIN doc.m |->
                        UnmarshalValue(doc.m[k], IF k \in objs THEN new[k] ELSE 0)]]

\* Copy with the values of the stored types this model has always marshal,
\* so only the success path of json.Marshal and json.Unmarshal is taken
Copy(s, used) == StateOutcome(UnmarshalState(MarshalState(s), used), Nil)

\* a JSON text: whether it is well-formed and, when it is, the value it
\* denotes (null, a string, a number, an array or an object)
JSONStr(valid, value) == [valid |-> valid, value |-> value]

\* FromJSON that makes the state hold the keys of the JSON object only
StateFromJSONReplaces(s, jsonStr, used) ==
    IF ~jsonStr.valid
    THEN StateOutcome(s, Wrapf("failed to unmarshal JSON to state", -1, "",
                               Errorf("invalid character")))
    ELSE IF jsonStr.value.kind = "null" THEN StateOutcome(s, Nil)
    ELSE IF jsonStr.value.kind # "object"
    THEN StateOutcome(s, Wrapf("failed to unmarshal JSON to state", -1, "",
                               Errorf("cannot unmarshal into Go value of type state.State")))
    ELSE IF s.isNil THEN StateOutcome(s, Nil)
    ELSE StateOutcome(UnmarshalState([isNull |-> FALSE, m |-> jsonStr.value.m], used),
                      Nil)

\* State.FromJSON: json.Unmarshal([]byte(jsonStr), &s) with s the receiver's
\* copy of the map reference.  The text is checked as a whole before anything
\* is stored; null sets the copy to nil; an object is decoded into the map s
\* refers to, whose other entries stay, or into a new map the caller never
\* sees when s is nil; any other value is an UnmarshalTypeError
StateFromJSON(s, jsonStr, used) ==
    LET decoded == UnmarshalState([isNull |-> FALSE, m |-> jsonStr.value.m], used)
    IN  IF ~jsonStr.valid
        THEN StateOutcome(s, Wrapf("failed to unmarshal JSON to state", -1, "",
                                   Errorf("invalid character")))
        ELSE IF jsonStr.value.kind = "null" THEN StateOutcome(s, Nil)
        ELSE IF jsonStr.value.kind # "object"
        THEN StateOutcome(s, Wrapf("failed to unmarshal JSON to state", -1, "",
                                   Errorf("cannot unmarshal into Go value of type state.State")))
        ELSE IF s.isNil THEN StateOutcome(s, Nil)
        ELSE StateOutcome([s EXCEPT !.m = [k \in Keys(s) \cup Keys(decoded) |->
                                              IF k \in Keys(decoded) THEN decoded.m[k]
                                              ELSE s.m[k]]],
                          Nil)

\* a call of a State method and what it returned:
\*   ret, has, size   the result of Get, of Has and of Size
\*   pre              the caller's states as they were when the call was made
StateCall(op, key, value, ret, has, size, err, pre) ==
    [op |-> op, key |-> key, value |-> value, ret |-> ret, has |-> has,
     size |-> size, err |-> err, pre |-> pre]

StateKeys == {"key1", "key2"}

\* the caller's states: s and other from NewState(), copy not yet assigned;
\* hist[k] is the last Set or Delete of key k on s
StateInit ==
    [s |-> NewState, other |-> NewState, copy |-> NilMap,
     hist |-> [k \in StateKeys |-> [op |-> "none", value |-> NilValue]],
     last |-> StateCall("none", "", NilValue, NilValue, FALSE, 0, Nil,
                        [s |-> NewState, other |-> NewState, copy |-> NilMap])]

----------------------------------------------------------------------------
(* Tracing (pkg/utils/tracing): Tracer, Span, SpanContext.                 *)
(* Identifiers are sequences: the empty string is <<>> and the n-th value  *)
(* uuid.New().String() returns is <<"uuid", n>>.  A context is 0 when it   *)
(* carries no span and otherwise the position in tracer.spans of the span  *)
(* whose StartSpan returned it.                                            *)

EmptyString == <<>>

\* the n-th identifier generated; two calls never return the same one
UUID(n) == <<"uuid", n>>

SpanStatusUnset == "unset"

SpanStatusOK == "ok"

SpanStatusError == "error"

SpanContext(traceID, spanID, parentSpanID) ==
    [TraceID |-> traceID, SpanID |-> spanID, ParentSpanID |-> parentSpanID]

\* ctx is the context the span was started from; ended tells EndTime is set
Span(context, tags, status, ended, ctx) ==
    [Context |-> context, Tags |-> tags, Status |-> status, ended |-> ended,
     ctx |-> ctx]

\* ctx.Value(spanContextKey).(*SpanContext); nil is a context of empty fields
ParentSpan(spans, ctx) ==
    IF ctx = 0 THEN [isNil |-> TRUE, c |-> SpanContext(EmptyString, EmptyString, EmptyString)]
    ELSE [isNil |-> FALSE, c |-> spans[ctx].Context]

\* StartSpan that gives every span a trace of its own
StartSpanNewTrace(spans, uuids, ctx) ==
    LET spanID == UUID(uuids + 1)
        parentSpan == ParentSpan(spans, ctx)
        traceID == UUID(uuids + 2)
        parentSpanID == IF ~parentSpan.isNil THEN parentSpan.c.SpanID ELSE EmptyString
    IN  [span |-> Span(SpanContext(traceID, spanID, parentSpanID), {"service.name"},
                       SpanStatusUnset, FALSE, ctx),
         uuids |-> uuids + 2]

\* the span StartSpan returns and the number of identifiers generated so far
StartSpan(spans, uuids, ctx) ==
    LET spanID == UUID(uuids + 1)
        parentSpan == ParentSpan(spans, ctx)
        traceID == IF ~parentSpan.isNil THEN parentSpan.c.TraceID ELSE UUID(uuids + 2)
        parentSpanID == IF ~parentSpan.isNil THEN parentSpan.c.SpanID ELSE EmptyString
    IN  [span |-> Span(SpanContext(traceID, spanID, parentSpanID), {"service.name"},
                       SpanStatusUnset, FALSE, ctx),
         uuids |-> IF ~parentSpan.isNil THEN uuids + 1 ELSE uuids + 2]

\* EndSpan that reports every ended span as ok
EndSpanAlwaysOK(span) == [span EXCEPT !.ended = TRUE, !.Status = SpanStatusOK]

EndSpan(span) ==
    [span EXCEPT !.ended = TRUE,
                 !.Status = IF span.Status = SpanStatusUnset THEN SpanStatusOK
                            ELSE span.Status]

SetStatus(span, status) == [span EXCEPT !.Status = status]

\* with a non-nil error
SetError(span) ==
    [span EXCEPT !.Status = SpanStatusError,
                 !.Tags = span.Tags \cup {"error", "error.message"}]

\* a call on the tracer or on a span: the span it acted on, the context or
\* status it was given and the status of the span before the call
TraceCall(op, span, ctx, status, before) ==
    [op |-> op, span |-> span, ctx |-> ctx, status |-> status, before |-> before]

\* NewTracer(serviceName): no span started, no identifier generated
TracerInit ==
    [spans |-> <<>>, uuids |-> 0,
     last |-> TraceCall("none", 0, 0, SpanStatusUnset, SpanStatusUnset)]

----------------------------------------------------------------------------
(* Configuration (pkg/utils/config): GetEnvBool.                           *)
(* The value of an environment variable is a sequence of characters, so    *)
(* that the spelling of a word in upper, lower and mixed case differs.     *)

\* the value and the default GetEnvBool is called with, and its result
Environ(set, value, defaultValue, called, result) ==
    [set |-> set, value |-> value, defaultValue |-> defaultValue,
     called |-> called, result |-> result]

\* os.Getenv(key): the empty string for a variable that is not set
Getenv(e) == IF e.set THEN e.value ELSE <<>>

\* case "true", "1", "yes", "on", "TRUE", "YES", "ON"
TrueCases ==
    { <<"t", "r", "u", "e">>, <<"1">>, <<"y", "e", "s">>, <<"o", "n">>,
      <<"T", "R", "U", "E">>, <<"Y", "E", "S">>, <<"O", "N">> }

\* case "false", "0", "no", "off", "FALSE", "NO", "OFF"
FalseCases ==
    { <<"f", "a", "l", "s", "e">>, <<"0">>, <<"n", "o">>, <<"o", "f", "f">>,
      <<"F", "A", "L", "S", "E">>, <<"N", "O">>, <<"O", "F", "F">> }

GetEnvBool(e, defaultValue) ==
    LET value == Getenv(e)
    IN  IF value # <<>> /\ value \in TrueCases THEN TRUE
        ELSE IF value # <<>> /\ value \in FalseCases THEN FALSE
        ELSE defaultValue

\* no variable set, GetEnvBool not called
EnvInit == Environ(FALSE, <<>>, FALSE, FALSE, FALSE)

----------------------------------------------------------------------------
(* Two callers of one graph: one runs AddEdge, the other RemoveNode, each  *)
(* call a sequence of the reads and writes of its body.                    *)
(*   sync     the callers take a lock around their calls                   *)
(*   lock     the caller holding the lock, "free" when none does           *)
(*   fault    the run-time ended the program on a concurrent map access    *)
(*   adder    the AddEdge call: where it is, its argument, the edge slice  *)
(*            it read and the error it returned                            *)
(*   remover  the RemoveNode call: where it is, its argument and the       *)
(*            filtered edges it has built                                  *)

Adder(pc, edge, edges, err) == [pc |-> pc, edge |-> edge, edges |-> edges, err |-> err]

Remover(pc, nodeID, filteredEdges) ==
    [pc |-> pc, nodeID |-> nodeID, filteredEdges |-> filteredEdges]

Calls(sync, lock, fault, adder, remover) ==
    [sync |-> sync, lock |-> lock, fault |-> fault, adder |-> adder,
     remover |-> remover]

\* no concurrent calls are made
NoCalls ==
    Calls(FALSE, "free", FALSE, Adder("none", NilEdge, <<>>, Nil),
          Remover("none", "", <<>>))

\* if edge == nil ...; if err := edge.Validate(); err != nil ...
AddEdgeCheckEdge(edge) ==
    IF edge.isNil THEN Errorf("cannot add nil edge")
    ELSE IF EdgeValidate(edge) # Nil
    THEN Wrapf("edge validation failed", -1, "", EdgeValidate(edge))
    ELSE Nil

\* if g.GetNode(edge.From) == nil ...
AddEdgeCheckFrom(gr, edge) ==
    IF GetNode(gr, edge.From) = NilNode
    THEN ValidationError("edge.from", "source node does not exist")
    ELSE Nil

\* if g.GetNode(edge.To) == nil ...
AddEdgeCheckTo(gr, edge) ==
    IF GetNode(gr, edge.To) = NilNode
    THEN ValidationError("edge.to", "target node does not exist")
    ELSE Nil

\* delete(g.Nodes, nodeID)
RemoveNodeDelete(gr, nodeID) == [gr EXCEPT !.Nodes = MapDelete(gr.Nodes, nodeID)]

\* the loop of RemoveNode that drops the edges leaving nodeID only
RemoveNodeFilterFromOnly(edges, nodeID) ==
    LET Keep(edge) == edge.From # nodeID
    IN  SelectSeq(edges, Keep)

\* the loop of RemoveNode over the edges it read, none of them nil
RemoveNodeFilter(edges, nodeID) ==
    LET Keep(edge) == edge.From # nodeID /\ edge.To # nodeID
    IN  SelectSeq(edges, Keep)

----------------------------------------------------------------------------
(* Initial values of the parts of the model outside the graph *)

\* no clone has been made: the caller's pointer to the clone is nil
\*   shared   the fields of the clone that are the same object as the
\*            original's field
\*   pre      the clone as it was when the last call was made
NoClone == [made |-> FALSE, g |-> ZeroGraph, shared |-> {}, pre |-> ZeroGraph]

----------------------------------------------------------------------------
(* The caller: one graph, the call made last and what it returned.         *)
(*   last.pre   the graph as it was when the call was made                 *)
(*   removed    identifiers RemoveNode took out of the graph and no        *)
(*              AddNode has put back since                                 *)

Call(op, id, node, edge, err, ret, rets, pre) ==
    [op |-> op, id |-> id, node |-> node, edge |-> edge, err |-> err,
     ret |-> ret, rets |-> rets, pre |-> pre]

GraphNames == {"wf"}

\* no method call has been made since the graph was built or assigned to
NoCall == Call("none", "", NilNode, NilEdge, Nil, NilNode, <<>>, NewGraph(""))

Init ==
    \E name \in GraphNames :
        /\ g = NewGraph(name)
        /\ last = NoCall
        /\ removed = {}
        /\ clone = NoClone
        /\ state = StateInit
        /\ tracer = TracerInit
        /\ env = EnvInit
        /\ calls = NoCalls

CallAddNode ==
    \E node \in NodeArgs :
        LET o == AddNode(g, node)
        IN  /\ g' = o.g
            /\ last' = Call("AddNode", "", node, NilEdge, o.err, NilNode, <<>>, g)
            /\ removed' = IF o.err = Nil THEN removed \ {GetID(node)} ELSE removed
            /\ UNCHANGED <<clone, state, tracer, env, calls>>

CallRemoveNode ==
    \E nodeID \in IdArgs :
        LET o == RemoveNode(g, nodeID)
        IN  /\ g' = o.g
            /\ last' = Call("RemoveNode", nodeID, NilNode, NilEdge, o.err, NilNode, <<>>, g)
            /\ removed' = IF MapHas(g.Nodes, nodeID) THEN removed \cup {nodeID}
                           ELSE removed
            /\ UNCHANGED <<clone, state, tracer, env, calls>>

CallAddEdge ==
    \E edge \in EdgeArgs :
        LET o == AddEdge(g, edge)
        IN  /\ o.err = Nil => Len(g.Edges) < MaxEdges
            /\ g' = o.g
            /\ last' = Call("AddEdge", "", NilNode, edge, o.err, NilNode, <<>>, g)
            /\ UNCHANGED <<removed, clone, state, tracer, env, calls>>

CallGetNode ==
    \E nodeID \in IdArgs :
        /\ last' = Call("GetNode", nodeID, NilNode, NilEdge, Nil, GetNode(g, nodeID), <<>>, g)
        /\ UNCHANGED <<g, removed, clone, state, tracer, env, calls>>

CallGetOutgoingEdges ==
    \E nodeID \in IdArgs :
        LET r == GetOutgoingEdges(g, nodeID)
        IN  /\ last' = Call("GetOutgoingEdges", nodeID, NilNode, NilEdge, r.err, NilNode,
                            r.edges, g)
            /\ UNCHANGED <<g, removed, clone, state, tracer, env, calls>>

CallGetIncomingEdges ==
    \E nodeID \in IdArgs :
        LET r == GetIncomingEdges(g, nodeID)
        IN  /\ last' = Call("GetIncomingEdges", nodeID, NilNode, NilEdge, r.err, NilNode,
                            r.edges, g)
            /\ UNCHANGED <<g, removed, clone, state, tracer, env, calls>>

CallValidate ==
    \E err \in Validate(g) :
        /\ last' = Call("Validate", "", NilNode, NilEdge, err, NilNode, <<>>, g)
        /\ UNCHANGED <<g, removed, clone, state, tracer, env, calls>>

\* g.EntryNode = nodeID, the only way the package offers to set the entry node
AssignEntryNode ==
    \E nodeID \in IdArgs :
        /\ g' = [g EXCEPT !.EntryNode = nodeID]
        /\ last' = NoCall
        /\ UNCHANGED <<removed, clone, state, tracer, env, calls>>

Next ==
    \/ CallAddNode
    \/ CallRemoveNode
    \/ CallAddEdge
    \/ CallGetNode
    \/ CallGetOutgoingEdges
    \/ CallGetIncomingEdges
    \/ CallValidate
    \/ AssignEntryNode

Spec == Init /\ [][Next]_vars

----------------------------------------------------------------------------
(* A caller that assigns the exported fields of the graph directly *)

AssignedIDs == {"", GeneratedID}

AssignedKeys == {"a", "b"}

AssignedNodes ==
    { ExecutorNode(1, "a", "llm"), ExecutorNode(3, "b", "llm"),
      ExecutorNode(4, "b", ""), NilNode, TypedNilNode }

AssignedEdges ==
    { NilEdge, NewEdge("a", "b"), NewEdge("b", "a"), NewEdge("a", "a"),
      NewEdge("", "a"), NewEdge("a", ""), NewEdge("a", "c"), NewEdge("c", "a") }

\* g.ID = id
AssignID ==
    \E id \in AssignedIDs :
        /\ g' = [g EXCEPT !.ID = id]
        /\ last' = NoCall
        /\ UNCHANGED <<removed, clone, state, tracer, env, calls>>

\* g.Nodes = nil, or g.Nodes = make(map[string]Node)
AssignNodes ==
    \E mp \in {NilMap, MakeMap} :
        /\ g' = [g EXCEPT !.Nodes = mp]
        /\ last' = NoCall
        /\ UNCHANGED <<removed, clone, state, tracer, env, calls>>

\* g.Nodes[k] = node
AssignNode ==
    \E k \in AssignedKeys, node \in AssignedNodes :
        /\ ~g.Nodes.isNil
        /\ g' = [g EXCEPT !.Nodes = MapPut(g.Nodes, k, node)]
        /\ last' = NoCall
        /\ UNCHANGED <<removed, clone, state, tracer, env, calls>>

\* g.Edges = append(g.Edges, edge)
AssignEdges ==
    \E edge \in AssignedEdges :
        /\ Len(g.Edges) < MaxEdges
        /\ g' = [g EXCEPT !.Edges = Append(g.Edges, edge)]
        /\ last' = NoCall
        /\ UNCHANGED <<removed, clone, state, tracer, env, calls>>

NextAssign ==
    \/ AssignID
    \/ AssignNodes
    \/ AssignNode
    \/ AssignEdges
    \/ AssignEntryNode
    \/ CallValidate

SpecAssign == Init /\ [][NextAssign]_vars

----------------------------------------------------------------------------
(* JSON: a text is modelled by the document it denotes.  A member that the *)
(* text omits has present = FALSE; the literal null has isNull = TRUE.     *)
(* A nil slice and an empty one are both the empty sequence: they differ   *)
(* only in being written as null and as [], which are read back alike.     *)

JNull == [isNull |-> TRUE, id |-> "", type |-> "", executor_type |-> "",
          routes |-> <<>>, default_route |-> ""]

\* json.Marshal of a Node: a nil interface and a nil pointer are written null
MarshalNode(node) ==
    IF IsNilPointer(node) THEN JNull
    ELSE [isNull |-> FALSE, id |-> node.ID, type |-> node.type,
          executor_type |-> node.ExecutorType, routes |-> node.Routes,
          default_route |-> node.DefaultRoute]

JNullEdge == [isNull |-> TRUE, from |-> "", to |-> ""]

MarshalEdge(edge) ==
    IF edge.isNil THEN JNullEdge
    ELSE [isNull |-> FALSE, from |-> edge.From, to |-> edge.To]

UnmarshalEdge(je) == IF je.isNull THEN NilEdge ELSE NewEdge(je.from, je.to)

JNodes(present, isNull, m) == [present |-> present, isNull |-> isNull, m |-> m]

JEdges(present, isNull, s) == [present |-> present, isNull |-> isNull, s |-> s]

JDoc(wellFormed, id, name, nodes, edges, entry, metadata, version) ==
    [wellFormed |-> wellFormed, id |-> id, name |-> name, nodes |-> nodes,
     edges |-> edges, entry_node |-> entry, metadata |-> metadata,
     version |-> version]

\* the text and the error ToJSON returns
Text(doc, err) == [json |-> doc, err |-> err]

ToJSON(gr) ==
    Text(JDoc(TRUE, gr.ID, gr.Name,
              JNodes(TRUE, gr.Nodes.isNil,
                     [k \in DOMAIN gr.Nodes.m |-> MarshalNode(gr.Nodes.m[k])]),
              JEdges(TRUE, FALSE,
                     [i \in 1..Len(gr.Edges) |-> MarshalEdge(gr.Edges[i])]),
              gr.EntryNode, gr.Metadata, gr.Version),
         Nil)

\* json.Unmarshal cannot store a JSON object in a value of the interface
\* type Node; only null is accepted
FromJSON(doc) ==
    IF ~doc.wellFormed
    THEN Outcome(ZeroGraph, Wrapf("failed to unmarshal graph from JSON", -1, "",
                                  Errorf("SyntaxError")))
    ELSE IF \E k \in DOMAIN doc.nodes.m : ~doc.nodes.m[k].isNull
    THEN Outcome(ZeroGraph, Wrapf("failed to unmarshal graph from JSON", -1, "",
                                  Errorf("UnmarshalTypeError")))
    ELSE Outcome([ID |-> doc.id, Name |-> doc.name, Description |-> "",
                  Nodes |-> IF ~doc.nodes.present \/ doc.nodes.isNull THEN NilMap
                            ELSE [isNil |-> FALSE,
                                  m |-> [k \in DOMAIN doc.nodes.m |-> NilNode]],
                  Edges |-> [i \in 1..Len(doc.edges.s) |->
                                UnmarshalEdge(doc.edges.s[i])],
                  EntryNode |-> doc.entry_node, Metadata |-> doc.metadata,
                  Version |-> doc.version],
                 Nil)

\* the texts the caller reads graphs from
JSONTexts ==
    { \* not JSON
      JDoc(FALSE, "", "", JNodes(FALSE, FALSE, EmptyFun), JEdges(FALSE, FALSE, <<>>),
           "", {}, ""),
      \* {}
      JDoc(TRUE, "", "", JNodes(FALSE, FALSE, EmptyFun), JEdges(FALSE, FALSE, <<>>),
           "", {}, ""),
      \* {"id":"uuid-1","name":"wf","nodes":null,"edges":null,"version":"1.0"}
      JDoc(TRUE, GeneratedID, "wf", JNodes(TRUE, TRUE, EmptyFun),
           JEdges(TRUE, TRUE, <<>>), "", {}, "1.0"),
      \* {"id":"uuid-1","name":"wf","nodes":{"a":null},"edges":[null],
      \*  "entry_node":"a","version":"1.0"}
      JDoc(TRUE, GeneratedID, "wf", JNodes(TRUE, FALSE, [k \in {"a"} |-> JNull]),
           JEdges(TRUE, FALSE, <<JNullEdge>>), "a", {}, "1.0"),
      \* {"id":"uuid-1","name":"wf","nodes":{"a":{"id":"a","type":"executor",
      \*  "executor_type":"llm"}},"edges":[],"entry_node":"a","version":"1.0"}
      JDoc(TRUE, GeneratedID, "wf",
           JNodes(TRUE, FALSE,
                  [k \in {"a"} |-> MarshalNode(ExecutorNode(1, "a", "llm"))]),
           JEdges(TRUE, FALSE, <<>>), "a", {}, "1.0"),
      \* {"id":"uuid-1","name":"wf","nodes":{"a":null,"b":null},
      \*  "edges":[{"from":"a","to":"b"}],"entry_node":"a","version":"1.0"}
      JDoc(TRUE, GeneratedID, "wf",
           JNodes(TRUE, FALSE, [k \in {"a", "b"} |-> JNull]),
           JEdges(TRUE, FALSE, <<MarshalEdge(NewEdge("a", "b"))>>), "a", {}, "1.0") }

CallFromJSON ==
    \E doc \in JSONTexts :
        LET o == FromJSON(doc)
        IN  /\ g' = IF o.err = Nil THEN o.g ELSE g
            /\ last' = Call("FromJSON", "", NilNode, NilEdge, o.err, NilNode, <<>>, g)
            /\ removed' = IF o.err = Nil THEN {} ELSE removed
            /\ UNCHANGED <<clone, state, tracer, env, calls>>

\* s, _ := g.ToJSON(); g, err = FromJSON(s)
CallRoundTrip ==
    LET o == FromJSON(ToJSON(g).json)
    IN  /\ g' = IF o.err = Nil THEN o.g ELSE g
        /\ last' = Call("RoundTrip", "", NilNode, NilEdge, o.err, NilNode, <<>>, g)
        /\ removed' = IF o.err = Nil THEN {} ELSE removed
        /\ UNCHANGED <<clone, state, tracer, env, calls>>

NextJSON ==
    \/ CallAddNode
    \/ CallRemoveNode
    \/ CallAddEdge
    \/ CallGetNode
    \/ CallGetOutgoingEdges
    \/ CallGetIncomingEdges
    \/ CallValidate
    \/ AssignEntryNode
    \/ CallFromJSON
    \/ CallRoundTrip

SpecJSON == Init /\ [][NextJSON]_vars

----------------------------------------------------------------------------
(* A caller that clones a graph and goes on using both graphs *)

\* what Clone returns; shared names the fields the result has in common
\* with the receiver
Cloned(gr, err, shared) == [g |-> gr, err |-> err, shared |-> shared]

\* Clone that copies the struct, so both graphs hold the same Nodes map
CloneShallow(gr) == Cloned(gr, Nil, {"Nodes"})

Clone(gr) ==
    LET t == ToJSON(gr)
        o == FromJSON(t.json)
    IN  IF t.err # Nil
        THEN Cloned(ZeroGraph,
                    Wrapf("failed to serialize graph for cloning", -1, "", t.err), {})
        ELSE Cloned(o.g, o.err, {})

\* c, err := g.Clone()
CallClone ==
    LET r == Clone(g)
    IN  /\ clone' = IF r.err = Nil
                    THEN [made |-> TRUE, g |-> r.g, shared |-> r.shared, pre |-> clone.g]
                    ELSE NoClone
        /\ last' = Call("Clone", "", NilNode, NilEdge, r.err, NilNode, <<>>, g)
        /\ UNCHANGED <<g, removed, state, tracer, env, calls>>

\* the calls made on either graph after cloning
CloneCalls ==
    { [op |-> "AddNode", id |-> "", node |-> ExecutorNode(1, "a", "llm"), edge |-> NilEdge],
      [op |-> "AddNode", id |-> "", node |-> ExecutorNode(3, "b", "llm"), edge |-> NilEdge],
      [op |-> "AddEdge", id |-> "", node |-> NilNode, edge |-> NewEdge("a", "b")],
      [op |-> "RemoveNode", id |-> "a", node |-> NilNode, edge |-> NilEdge] }

ApplyCall(gr, c) ==
    IF c.op = "AddNode" THEN AddNode(gr, c.node)
    ELSE IF c.op = "AddEdge" THEN AddEdge(gr, c.edge)
    ELSE RemoveNode(gr, c.id)

\* g.AddNode(node), g.AddEdge(edge) or g.RemoveNode(id) on the original
UseOriginal ==
    \E c \in CloneCalls :
        LET o == ApplyCall(g, c)
        IN  /\ clone.made
            /\ o.err = Nil /\ c.op = "AddEdge" => Len(g.Edges) < MaxEdges
            /\ g' = o.g
            /\ clone' = [clone EXCEPT
                            !.g.Nodes = IF "Nodes" \in clone.shared THEN o.g.Nodes ELSE @,
                            !.pre = clone.g]
            /\ last' = Call(c.op, c.id, c.node, c.edge, o.err, NilNode, <<>>, g)
            /\ UNCHANGED <<removed, state, tracer, env, calls>>

\* c.AddNode(node), c.AddEdge(edge) or c.RemoveNode(id) on the clone
UseClone ==
    \E c \in CloneCalls :
        LET o == ApplyCall(clone.g, c)
        IN  /\ clone.made
            /\ o.err = Nil /\ c.op = "AddEdge" => Len(clone.g.Edges) < MaxEdges
            /\ clone' = [clone EXCEPT !.g = o.g, !.pre = clone.g]
            /\ g' = IF "Nodes" \in clone.shared THEN [g EXCEPT !.Nodes = o.g.Nodes]
                    ELSE g
            /\ last' = Call("clone." \o c.op, c.id, c.node, c.edge, o.err, NilNode,
                            <<>>, g)
            /\ UNCHANGED <<removed, state, tracer, env, calls>>

NextClone ==
    \/ CallFromJSON
    \/ CallClone
    \/ UseOriginal
    \/ UseClone

SpecClone == Init /\ [][NextClone]_vars

----------------------------------------------------------------------------
(* A caller that validates one router node *)

RouteTargets == {"", "x", "y"}

RouterIDs == {"", "router-1"}

DefaultRoutes == {"", "x"}

RECURSIVE SeqsUpTo(_, _)
\* the sequences over S of length at most n
SeqsUpTo(S, n) ==
    IF n = 0 THEN {<<>>}
    ELSE SeqsUpTo(S, n - 1) \cup
         {Append(s, x) : s \in {q \in SeqsUpTo(S, n - 1) : Len(q) = n - 1}, x \in S}

\* &RouterNode{BaseNode: BaseNode{ID: id, Type: NodeTypeRouter},
\*             Routes: routes, DefaultRoute: defaultRoute}
RouterArgs ==
    { RouterNode(8, id, routes, defaultRoute) :
        id \in RouterIDs, routes \in SeqsUpTo(RouteTargets, MaxRoutes),
        defaultRoute \in DefaultRoutes }

InitRouter ==
    \E node \in RouterArgs :
        /\ g = NewGraph("wf")
        /\ last = Call("none", "", node, NilEdge, Nil, NilNode, <<>>, NewGraph(""))
        /\ removed = {}
        /\ clone = NoClone
        /\ state = StateInit
        /\ tracer = TracerInit
        /\ env = EnvInit
        /\ calls = NoCalls

\* err := node.Validate()
CallRouterNodeValidate ==
    /\ last.op = "none"
    /\ last' = Call("RouterNode.Validate", "", last.node, NilEdge,
                    RouterNodeValidate(last.node), NilNode, <<>>, last.pre)
    /\ UNCHANGED <<g, removed, clone, state, tracer, env, calls>>

NextRouter == CallRouterNodeValidate

SpecRouter == InitRouter /\ [][NextRouter]_vars

----------------------------------------------------------------------------
(* A caller of State *)

\* the values the caller stores: nil, a string, an int and a nested map
StateValues ==
    { NilValue, StringValue("value1"), IntValue(42),
      MapValue(1, [k \in {"nested"} |-> StringValue("data")]) }

StatePre == [s |-> state.s, other |-> state.other, copy |-> state.copy]

StateSet ==
    \E key \in StateKeys, value \in StateValues :
        LET o == Set(state.s, key, value)
        IN  /\ state' = [state EXCEPT
                            !.s = o.s,
                            !.hist[key] = [op |-> "Set", value |-> value],
                            !.last = StateCall("Set", key, value, NilValue, FALSE, 0,
                                               o.err, StatePre)]
            /\ UNCHANGED <<g, last, removed, clone, tracer, env, calls>>

StateDelete ==
    \E key \in StateKeys :
        /\ state' = [state EXCEPT
                        !.s = Delete(state.s, key),
                        !.hist[key] = [op |-> "Delete", value |-> NilValue],
                        !.last = StateCall("Delete", key, NilValue, NilValue, FALSE, 0,
                                           Nil, StatePre)]
        /\ UNCHANGED <<g, last, removed, clone, tracer, env, calls>>

StateGet ==
    \E key \in StateKeys :
        /\ state' = [state EXCEPT
                        !.last = StateCall("Get", key, NilValue, Get(state.s, key),
                                           FALSE, 0, Nil, StatePre)]
        /\ UNCHANGED <<g, last, removed, clone, tracer, env, calls>>

StateHas ==
    \E key \in StateKeys :
        /\ state' = [state EXCEPT
                        !.last = StateCall("Has", key, NilValue, NilValue,
                                           Has(state.s, key), 0, Nil, StatePre)]
        /\ UNCHANGED <<g, last, removed, clone, tracer, env, calls>>

StateSize ==
    /\ state' = [state EXCEPT
                    !.last = StateCall("Size", "", NilValue, NilValue, FALSE,
                                       Size(state.s), Nil, StatePre)]
    /\ UNCHANGED <<g, last, removed, clone, tracer, env, calls>>

NextState ==
    \/ StateSet
    \/ StateDelete
    \/ StateGet
    \/ StateHas
    \/ StateSize

SpecState == Init /\ [][NextState]_vars

----------------------------------------------------------------------------
(* A caller that copies a State and goes on using both *)

StateClear ==
    /\ state' = [state EXCEPT
                    !.s = Clear(state.s),
                    !.last = StateCall("Clear", "", NilValue, NilValue, FALSE, 0, Nil,
                                       StatePre)]
    /\ UNCHANGED <<g, last, removed, clone, tracer, env, calls>>

\* copy, err := s.Copy()
StateCopy ==
    LET o == Copy(state.s, Refs(state.s) \cup Refs(state.other))
    IN  /\ state' = [state EXCEPT
                        !.copy = o.s,
                        !.last = StateCall("Copy", "", NilValue, NilValue, FALSE, 0,
                                           o.err, StatePre)]
        /\ UNCHANGED <<g, last, removed, clone, tracer, env, calls>>

\* copy.Set(key, value), once a copy has been made
CopySet ==
    \E key \in StateKeys, value \in StateValues :
        LET o == Set(state.copy, key, value)
        IN  /\ state.last.op \in {"Copy", "CopySet", "CopyDelete"}
            /\ state' = [state EXCEPT
                            !.copy = o.s,
                            !.last = StateCall("CopySet", key, value, NilValue, FALSE,
                                               0, o.err, StatePre)]
            /\ UNCHANGED <<g, last, removed, clone, tracer, env, calls>>

\* copy.Delete(key), once a copy has been made
CopyDelete ==
    \E key \in StateKeys :
        /\ state.last.op \in {"Copy", "CopySet", "CopyDelete"}
        /\ state' = [state EXCEPT
                        !.copy = Delete(state.copy, key),
                        !.last = StateCall("CopyDelete", key, NilValue, NilValue,
                                           FALSE, 0, Nil, StatePre)]
        /\ UNCHANGED <<g, last, removed, clone, tracer, env, calls>>

NextCopy ==
    \/ StateSet
    \/ StateDelete
    \/ StateClear
    \/ StateCopy
    \/ CopySet
    \/ CopyDelete

SpecCopy == Init /\ [][NextCopy]_vars

----------------------------------------------------------------------------
(* A caller that merges one State into another *)

\* other.Set(key, value)
OtherSet ==
    \E key \in StateKeys, value \in StateValues :
        LET o == Set(state.other, key, value)
        IN  /\ state' = [state EXCEPT
                            !.other = o.s,
                            !.last = StateCall("OtherSet", key, value, NilValue, FALSE,
                                               0, o.err, StatePre)]
            /\ UNCHANGED <<g, last, removed, clone, tracer, env, calls>>

\* s.Merge(other)
StateMerge ==
    LET o == Merge(state.s, state.other)
    IN  /\ state' = [state EXCEPT
                        !.s = o.s,
                        !.last = StateCall("Merge", "", NilValue, NilValue, FALSE, 0,
                                           o.err, StatePre)]
        /\ UNCHANGED <<g, last, removed, clone, tracer, env, calls>>

NextMerge ==
    \/ StateSet
    \/ OtherSet
    \/ StateMerge

SpecMerge == Init /\ [][NextMerge]_vars

----------------------------------------------------------------------------
(* A caller that reads JSON texts into a State it has filled *)

\* the texts: invalid json, null, "value1", 42, [], {}, {"key1":"test"},
\* {"key2":42}, {"key1":null,"key2":{"nested":"data"}}, {"key3":"value1"}
StateTexts ==
    { JSONStr(FALSE, JValue("null", "", 0, EmptyFun)),
      JSONStr(TRUE, JValue("null", "", 0, EmptyFun)),
      JSONStr(TRUE, JValue("string", "value1", 0, EmptyFun)),
      JSONStr(TRUE, JValue("number", "", 42, EmptyFun)),
      JSONStr(TRUE, JValue("array", "", 0, EmptyFun)),
      JSONStr(TRUE, JValue("object", "", 0, EmptyFun)),
      JSONStr(TRUE, JValue("object", "", 0,
                           [k \in {"key1"} |-> JValue("string", "test", 0, EmptyFun)])),
      JSONStr(TRUE, JValue("object", "", 0,
                           [k \in {"key2"} |-> JValue("number", "", 42, EmptyFun)])),
      JSONStr(TRUE, JValue("object", "", 0,
                           [k \in {"key1", "key2"} |->
                               IF k = "key1" THEN JValue("null", "", 0, EmptyFun)
                               ELSE JValue("object", "", 0,
                                           [n \in {"nested"} |->
                                               JValue("string", "data", 0, EmptyFun)])])),
      JSONStr(TRUE, JValue("object", "", 0,
                           [k \in {"key3"} |-> JValue("string", "value1", 0, EmptyFun)])) }

\* s.FromJSON(jsonStr)
StateFromJSONCall ==
    \E jsonStr \in StateTexts :
        LET o == StateFromJSON(state.s, jsonStr, Refs(state.s) \cup Refs(state.other))
        IN  /\ \A ref \in Refs(o.s) : ref <= MaxRefs
            /\ state' = [state EXCEPT
                            !.s = o.s,
                            !.last = StateCall("FromJSON", "", jsonStr, NilValue, FALSE,
                                               0, o.err, StatePre)]
            /\ UNCHANGED <<g, last, removed, clone, tracer, env, calls>>

NextFromJSON ==
    \/ StateSet
    \/ StateDelete
    \/ StateFromJSONCall

SpecFromJSON == Init /\ [][NextFromJSON]_vars

----------------------------------------------------------------------------
(* A caller of the tracer *)

SpanStatuses == {SpanStatusUnset, SpanStatusOK, SpanStatusError}

\* span, ctx := tracer.StartSpan(ctx, name), from the background context or
\* from a context an earlier StartSpan returned
CallStartSpan ==
    \E ctx \in 0..Len(tracer.spans) :
        LET r == StartSpan(tracer.spans, tracer.uuids, ctx)
        IN  /\ Len(tracer.spans) < MaxSpans
            /\ tracer' = [spans |-> Append(tracer.spans, r.span),
                          uuids |-> r.uuids,
                          last |-> TraceCall("StartSpan", Len(tracer.spans) + 1, ctx,
                                             SpanStatusUnset, SpanStatusUnset)]
            /\ UNCHANGED <<g, last, removed, clone, state, env, calls>>

\* tracer.EndSpan(span)
CallEndSpan ==
    \E i \in 1..Len(tracer.spans) :
        /\ tracer' = [tracer EXCEPT
                         !.spans[i] = EndSpan(tracer.spans[i]),
                         !.last = TraceCall("EndSpan", i, 0, SpanStatusUnset,
                                            tracer.spans[i].Status)]
        /\ UNCHANGED <<g, last, removed, clone, state, env, calls>>

\* span.SetStatus(status)
CallSetStatus ==
    \E i \in 1..Len(tracer.spans), status \in SpanStatuses :
        /\ tracer' = [tracer EXCEPT
                         !.spans[i] = SetStatus(tracer.spans[i], status),
                         !.last = TraceCall("SetStatus", i, 0, status,
                                            tracer.spans[i].Status)]
        /\ UNCHANGED <<g, last, removed, clone, state, env, calls>>

\* span.SetError(err)
CallSetError ==
    \E i \in 1..Len(tracer.spans) :
        /\ tracer' = [tracer EXCEPT
                         !.spans[i] = SetError(tracer.spans[i]),
                         !.last = TraceCall("SetError", i, 0, SpanStatusUnset,
                                            tracer.spans[i].Status)]
        /\ UNCHANGED <<g, last, removed, clone, state, env, calls>>

\* a caller that starts spans from one another's contexts and ends them
NextTrace ==
    \/ CallStartSpan
    \/ CallEndSpan

SpecTrace == Init /\ [][NextTrace]_vars

\* span, _ := tracer.StartSpan(context.Background(), name)
CallStartRootSpan ==
    LET r == StartSpan(tracer.spans, tracer.uuids, 0)
    IN  /\ Len(tracer.spans) < MaxRootSpans
        /\ tracer' = [spans |-> Append(tracer.spans, r.span),
                      uuids |-> r.uuids,
                      last |-> TraceCall("StartSpan", Len(tracer.spans) + 1, 0,
                                         SpanStatusUnset, SpanStatusUnset)]
        /\ UNCHANGED <<g, last, removed, clone, state, env, calls>>

\* a caller that starts root spans, marks them and ends them
NextSpan ==
    \/ CallStartRootSpan
    \/ CallEndSpan
    \/ CallSetStatus
    \/ CallSetError

SpecSpan == Init /\ [][NextSpan]_vars

----------------------------------------------------------------------------
(* A caller that reads one boolean setting from the environment *)

Letters ==
    <<"a", "d", "e", "f", "i", "l", "n", "o", "r", "s", "t", "u", "v", "y">>

Capitals ==
    <<"A", "D", "E", "F", "I", "L", "N", "O", "R", "S", "T", "U", "V", "Y">>

\* the upper-case and the lower-case form of a character
Upper(c) ==
    IF \E i \in 1..Len(Letters) : Letters[i] = c
    THEN Capitals[CHOOSE i \in 1..Len(Letters) : Letters[i] = c]
    ELSE c

Lower(c) ==
    IF \E i \in 1..Len(Capitals) : Capitals[i] = c
    THEN Letters[CHOOSE i \in 1..Len(Capitals) : Capitals[i] = c]
    ELSE c

ToLower(s) == [i \in 1..Len(s) |-> Lower(s[i])]

RECURSIVE Spellings(_)
\* every way of writing a lower-case word in upper, lower and mixed case
Spellings(w) ==
    IF w = <<>> THEN {<<>>}
    ELSE {<<c>> \o rest : c \in {Head(w), Upper(Head(w))}, rest \in Spellings(Tail(w))}

TrueWords == {<<"t", "r", "u", "e">>, <<"1">>, <<"y", "e", "s">>, <<"o", "n">>}

FalseWords == {<<"f", "a", "l", "s", "e">>, <<"0">>, <<"n", "o">>, <<"o", "f", "f">>}

\* os.Setenv(key, value): the words in every spelling, a word that is
\* neither, and the empty string
EnvValues ==
    UNION {Spellings(w) : w \in TrueWords \cup FalseWords}
        \cup {<<"i", "n", "v", "a", "l", "i", "d">>, <<>>}

InitEnv ==
    \E set \in BOOLEAN, value \in EnvValues, defaultValue \in BOOLEAN :
        /\ set \/ value = <<>>
        /\ g = NewGraph("wf")
        /\ last = NoCall
        /\ removed = {}
        /\ clone = NoClone
        /\ state = StateInit
        /\ tracer = TracerInit
        /\ env = Environ(set, value, defaultValue, FALSE, FALSE)
        /\ calls = NoCalls

\* result := GetEnvBool(key, defaultValue)
CallGetEnvBool ==
    /\ ~env.called
    /\ env' = [env EXCEPT !.called = TRUE,
                          !.result = GetEnvBool(env, env.defaultValue)]
    /\ UNCHANGED <<g, last, removed, clone, state, tracer, calls>>

NextEnv == CallGetEnvBool

SpecEnv == InitEnv /\ [][NextEnv]_vars

----------------------------------------------------------------------------
(* A caller that builds graphs with routers whose routes name nodes *)

\* the node objects this caller holds: two executors and routers with the
\* identifier c that route to a, to b and to x, which is never a node
RoutedNodes ==
    { ExecutorNode(1, "a", "llm"),
      ExecutorNode(3, "b", "llm"),
      RouterNode(9, "c", <<"b">>, "a"),
      RouterNode(10, "c", <<"x">>, "b"),
      RouterNode(11, "c", <<"b", "a">>, ""),
      RouterNode(5, "c", <<>>, "x") }

CallAddRouted ==
    \E node \in RoutedNodes :
        LET o == AddNode(g, node)
        IN  /\ g' = o.g
            /\ last' = Call("AddNode", "", node, NilEdge, o.err, NilNode, <<>>, g)
            /\ removed' = IF o.err = Nil THEN removed \ {GetID(node)} ELSE removed
            /\ UNCHANGED <<clone, state, tracer, env, calls>>

NextRoutes ==
    \/ CallAddRouted
    \/ CallRemoveNode
    \/ CallAddEdge
    \/ CallValidate
    \/ AssignEntryNode

SpecRoutes == Init /\ [][NextRoutes]_vars

----------------------------------------------------------------------------
(* Two goroutines on one graph: go g.AddEdge(edge) and go g.RemoveNode(id), *)
(* with or without a lock the callers take around their calls.  A step is   *)
(* one read or write of the graph; the slice header g.Edges is read and     *)
(* written as a whole.                                                      *)

\* the graph the goroutines share: three nodes and at most one edge
SharedGraph(first) ==
    LET nodes == AddNode(AddNode(AddNode(NewGraph("wf"),
                                         ExecutorNode(1, "a", "llm")).g,
                                 ExecutorNode(3, "b", "llm")).g,
                         RouterNode(5, "c", <<>>, "x")).g
    IN  IF first.isNil THEN nodes ELSE AddEdge(nodes, first).g

FirstEdges == {NilEdge, NewEdge("b", "c"), NewEdge("a", "b")}

ConcurrentEdges ==
    {NewEdge("a", "b"), NewEdge("b", "a"), NewEdge("a", "c"), NewEdge("a", "a")}

InitConcurrent ==
    \E sync \in BOOLEAN, first \in FirstEdges, edge \in ConcurrentEdges,
       nodeID \in Ids :
        /\ g = SharedGraph(first)
        /\ last = NoCall
        /\ removed = {}
        /\ clone = NoClone
        /\ state = StateInit
        /\ tracer = TracerInit
        /\ env = EnvInit
        /\ calls = Calls(sync, "free", FALSE, Adder("start", edge, <<>>, Nil),
                         Remover("start", nodeID, <<>>))

\* the lock after a caller that holds it or needs it has taken it
Locked(who) == IF calls.sync THEN who ELSE calls.lock

\* the lock after the call of its holder has returned
Unlocked == IF calls.sync THEN "free" ELSE calls.lock

\* AddEdge: the nil check and edge.Validate()
AdderCheckEdge ==
    LET err == AddEdgeCheckEdge(calls.adder.edge)
    IN  /\ ~calls.fault
        /\ calls.adder.pc = "start"
        /\ calls.sync => calls.lock = "free"
        /\ calls' = IF err # Nil
                    THEN [calls EXCEPT !.adder.pc = "done", !.adder.err = err]
                    ELSE [calls EXCEPT !.adder.pc = "checkFrom",
                                       !.lock = Locked("adder")]
        /\ UNCHANGED <<g, last, removed, clone, state, tracer, env>>

\* AddEdge: g.GetNode(edge.From)
AdderCheckFrom ==
    LET err == AddEdgeCheckFrom(g, calls.adder.edge)
    IN  /\ ~calls.fault
        /\ calls.adder.pc = "checkFrom"
        /\ calls' = IF err # Nil
                    THEN [calls EXCEPT !.adder.pc = "done", !.adder.err = err,
                                       !.lock = Unlocked]
                    ELSE [calls EXCEPT !.adder.pc = "checkTo"]
        /\ UNCHANGED <<g, last, removed, clone, state, tracer, env>>

\* AddEdge: g.GetNode(edge.To)
AdderCheckTo ==
    LET err == AddEdgeCheckTo(g, calls.adder.edge)
    IN  /\ ~calls.fault
        /\ calls.adder.pc = "checkTo"
        /\ calls' = IF err # Nil
                    THEN [calls EXCEPT !.adder.pc = "done", !.adder.err = err,
                                       !.lock = Unlocked]
                    ELSE [calls EXCEPT !.adder.pc = "read"]
        /\ UNCHANGED <<g, last, removed, clone, state, tracer, env>>

\* AddEdge: the read of g.Edges in append(g.Edges, edge)
AdderRead ==
    /\ ~calls.fault
    /\ calls.adder.pc = "read"
    /\ calls' = [calls EXCEPT !.adder.pc = "write", !.adder.edges = g.Edges]
    /\ UNCHANGED <<g, last, removed, clone, state, tracer, env>>

\* AddEdge: the assignment g.Edges = append(...) and return nil
AdderWrite ==
    /\ ~calls.fault
    /\ calls.adder.pc = "write"
    /\ g' = [g EXCEPT !.Edges = Append(calls.adder.edges, calls.adder.edge)]
    /\ calls' = [calls EXCEPT !.adder.pc = "done", !.lock = Unlocked]
    /\ UNCHANGED <<last, removed, clone, state, tracer, env>>

\* RemoveNode: delete(g.Nodes, nodeID)
RemoverDelete ==
    /\ ~calls.fault
    /\ calls.remover.pc = "start"
    /\ calls.sync => calls.lock = "free"
    /\ g' = RemoveNodeDelete(g, calls.remover.nodeID)
    /\ calls' = [calls EXCEPT !.remover.pc = "filter", !.lock = Locked("remover")]
    /\ UNCHANGED <<last, removed, clone, state, tracer, env>>

\* RemoveNode: the loop over g.Edges
RemoverFilter ==
    /\ ~calls.fault
    /\ calls.remover.pc = "filter"
    /\ calls' = [calls EXCEPT
                    !.remover.pc = "write",
                    !.remover.filteredEdges =
                        RemoveNodeFilter(g.Edges, calls.remover.nodeID)]
    /\ UNCHANGED <<g, last, removed, clone, state, tracer, env>>

\* RemoveNode: g.Edges = filteredEdges
RemoverWrite ==
    /\ ~calls.fault
    /\ calls.remover.pc = "write"
    /\ g' = [g EXCEPT !.Edges = calls.remover.filteredEdges]
    /\ calls' = [calls EXCEPT !.remover.pc = "done", !.lock = Unlocked]
    /\ UNCHANGED <<last, removed, clone, state, tracer, env>>

\* without the lock a lookup in g.Nodes can run while delete writes to it:
\* the run-time may end the program (concurrent map read and map write)
MapFault ==
    /\ ~calls.sync
    /\ ~calls.fault
    /\ calls.adder.pc \in {"checkFrom", "checkTo"}
    /\ calls.remover.pc = "start"
    /\ calls' = [calls EXCEPT !.fault = TRUE]
    /\ UNCHANGED <<g, last, removed, clone, state, tracer, env>>

NextConcurrent ==
    \/ AdderCheckEdge
    \/ AdderCheckFrom
    \/ AdderCheckTo
    \/ AdderRead
    \/ AdderWrite
    \/ RemoverDelete
    \/ RemoverFilter
    \/ RemoverWrite
    \/ MapFault

SpecConcurrent == InitConcurrent /\ [][NextConcurrent]_vars

----------------------------------------------------------------------------
(* Properties of the graph operations *)

\* the i-th smallest element of a finite set of integers
Nth(S, i) == CHOOSE x \in S : Cardinality({y \in S : y <= x}) = i

\* what the documentation of Validate requires of a graph
Valid(gr) ==
    /\ gr.ID # ""
    /\ NodeCount(gr) >= 1
    /\ gr.EntryNode # ""
    /\ MapHas(gr.Nodes, gr.EntryNode)
    /\ \A k \in DOMAIN gr.Nodes.m : NodeValidate(gr.Nodes.m[k]) = Nil
    /\ \A i \in 1..Len(gr.Edges) :
          /\ ~gr.Edges[i].isNil
          /\ EdgeValidate(gr.Edges[i]) = Nil
          /\ MapHas(gr.Nodes, gr.Edges[i].From)
          /\ MapHas(gr.Nodes, gr.Edges[i].To)

\* C1: Validate returns nil exactly when the id is non-empty, there is a node,
\* entryNode is non-empty and a key of nodes, every node validates and every
\* edge validates with both endpoints keys of nodes
C1_ValidateIff ==
    last.op = "Validate" => (last.err = Nil <=> Valid(last.pre))

\* Validate returned nil on a graph with two nodes and an edge, all assigned
C1_Witness ==
    /\ last.op = "Validate"
    /\ last.err = Nil
    /\ NodeCount(last.pre) = 2
    /\ Len(last.pre.Edges) >= 1

\* C2: a node accepted by AddNode is what GetNode returns for its identifier
\* (the same object), every call other than RemoveNode of that identifier
\* leaves GetNode's answer for a present node as it was, and GetNode of an
\* identifier that is not in the graph returns nil without error or panic
C2_GetNodeReturnsAdded ==
    /\ (last.op = "AddNode" /\ last.err = Nil)
          => GetNode(g, GetID(last.node)) = last.node
    /\ \A k \in IdArgs :
          (/\ last.op # "none"
           /\ GetNode(last.pre, k) # NilNode
           /\ ~(last.op = "RemoveNode" /\ last.id = k))
          => GetNode(g, k) = GetNode(last.pre, k)
    /\ (last.op = "GetNode" /\ ~MapHas(last.pre.Nodes, last.id))
          => (last.ret = NilNode /\ last.err = Nil)
    /\ (last.op = "GetNode" /\ MapHas(last.pre.Nodes, last.id))
          => last.ret = last.pre.Nodes.m[last.id]

\* GetNode has returned the second of two equal-looking objects for "a"
C2_Witness ==
    /\ last.op = "GetNode"
    /\ last.id = "a"
    /\ last.ret = ExecutorNode(2, "a", "llm")
    /\ NodeCount(g) = 3

\* C3: AddNode of a node whose identifier is already a key of nodes returns a
\* validation error and leaves nodes as they were (the node is not replaced)
C3_DuplicateRejected ==
    (/\ last.op = "AddNode"
     /\ ~IsNilPointer(last.node)
     /\ MapHas(last.pre.Nodes, GetID(last.node)))
    => /\ IsValidationError(last.err)
       /\ g.Nodes = last.pre.Nodes
       /\ NodeCount(g) = NodeCount(last.pre)
       /\ GetNode(g, GetID(last.node)) = GetNode(last.pre, GetID(last.node))

\* a second object with identifier "a" was offered while the first was stored
C3_Witness ==
    /\ last.op = "AddNode"
    /\ last.node = ExecutorNode(2, "a", "llm")
    /\ GetNode(last.pre, "a") = ExecutorNode(1, "a", "llm")
    /\ IsValidationError(last.err)
    /\ GetNode(g, "a") = ExecutorNode(1, "a", "llm")

\* C4: RemoveNode(x) takes x out of nodes, drops every edge with from or to
\* equal to x and keeps the others in their order; with x absent it changes
\* nothing, and a second RemoveNode(x) changes nothing
C4_RemoveNode ==
    last.op = "RemoveNode" =>
      LET x == last.id
          old == last.pre.Edges
          kept == {i \in 1..Len(old) : old[i].From # x /\ old[i].To # x}
      IN  /\ last.err = Nil
          /\ DOMAIN g.Nodes.m = DOMAIN last.pre.Nodes.m \ {x}
          /\ \A k \in DOMAIN g.Nodes.m : g.Nodes.m[k] = last.pre.Nodes.m[k]
          /\ Len(g.Edges) = Cardinality(kept)
          /\ \A j \in 1..Len(g.Edges) : g.Edges[j] = old[Nth(kept, j)]
          /\ ~MapHas(last.pre.Nodes, x) => g = last.pre
          /\ RemoveNode(g, x) = Outcome(g, Nil)

\* a present node was removed with one of two edges attached to it
C4_Witness ==
    /\ last.op = "RemoveNode"
    /\ MapHas(last.pre.Nodes, last.id)
    /\ Len(last.pre.Edges) = 2
    /\ Len(g.Edges) = 1

\* C5: AddEdge of an edge with an endpoint that is not a node of the graph
\* returns an error and leaves the edge sequence as it was
C5_AddEdgeMissingEndpoint ==
    (/\ last.op = "AddEdge"
     /\ ~last.edge.isNil
     /\ \/ GetNode(last.pre, last.edge.From) = NilNode
        \/ GetNode(last.pre, last.edge.To) = NilNode)
    => (IsError(last.err) /\ g.Edges = last.pre.Edges)

\* an otherwise valid edge named a node that had been removed
C5_Witness ==
    /\ last.op = "AddEdge"
    /\ ~last.edge.isNil
    /\ EdgeValidate(last.edge) = Nil
    /\ GetNode(last.pre, last.edge.From) # NilNode
    /\ last.edge.To \in removed
    /\ Len(last.pre.Edges) >= 1
    /\ IsValidationError(last.err)

\* C6: for a graph on which Validate returns nil, FromJSON(ToJSON(G)) succeeds
\* and gives a graph that validates and has the same node and edge counts
C6_RoundTripKeepsValid ==
    (last.op = "RoundTrip" /\ Validate(last.pre) = {Nil})
    => /\ last.err = Nil
       /\ Validate(g) = {Nil}
       /\ NodeCount(g) = NodeCount(last.pre)
       /\ EdgeCount(g) = EdgeCount(last.pre)

\* C7: a failing AddNode or AddEdge leaves the whole graph as it was
C7_FailedAddLeavesGraph ==
    (last.op \in {"AddNode", "AddEdge"} /\ last.err # Nil) => g = last.pre

\* AddNode failed on the node's own validation, on a graph that has a node
C7_Witness ==
    /\ last.op = "AddNode"
    /\ last.err.kind = "wrapped"
    /\ NodeCount(g) >= 1
    /\ g = last.pre

\* C8: no call of AddNode, AddEdge, RemoveNode, GetNode, GetOutgoingEdges,
\* GetIncomingEdges or Validate on a graph from NewGraph or FromJSON panics;
\* stated here for the arguments that are not nil pointers, which is all the
\* claim needs to fail
C8_NoPanic ==
    (/\ last.op \in {"AddNode", "AddEdge", "RemoveNode", "GetNode",
                      "GetOutgoingEdges", "GetIncomingEdges", "Validate"}
     /\ last.node # TypedNilNode)
    => last.err.kind # "panic"

\* C9: RemoveNode of the entry node of a graph that validated makes Validate
\* return an error (on nodes when no node is left, on entry_node otherwise),
\* and Validate returns an error whenever entryNode names no present node
C9_RemoveEntryInvalidates ==
    /\ (/\ last.op = "RemoveNode"
         /\ Validate(last.pre) = {Nil}
         /\ last.id = last.pre.EntryNode)
        => \A e \in Validate(g) :
              /\ IsValidationError(e)
              /\ e.field = IF NodeCount(g) = 0 THEN "nodes" ELSE "entry_node"
    /\ GetNode(g, g.EntryNode) = NilNode => \A e \in Validate(g) : IsError(e)

\* the entry node of a valid graph was removed and other nodes remain
C9_Witness ==
    /\ last.op = "RemoveNode"
    /\ Validate(last.pre) = {Nil}
    /\ last.id = last.pre.EntryNode
    /\ NodeCount(g) >= 1

\* C10: AddEdge returns an error and appends nothing for an edge whose from
\* is empty, whose to is empty, or whose from equals its to
C10_AddEdgeRejectsInvalidEdge ==
    (/\ last.op = "AddEdge"
     /\ ~last.edge.isNil
     /\ \/ last.edge.From = ""
        \/ last.edge.To = ""
        \/ last.edge.From = last.edge.To)
    => (IsError(last.err) /\ g.Edges = last.pre.Edges)

\* a self-loop on a node that is in the graph was rejected
C10_Witness ==
    /\ last.op = "AddEdge"
    /\ last.edge = NewEdge("a", "a")
    /\ GetNode(last.pre, "a") # NilNode
    /\ IsError(last.err)
    /\ g.Edges = last.pre.Edges

\* C12: a successful AddNode(n) stores n under n's identifier, which was not
\* a key before, and changes nothing else: every other node, the edge
\* sequence, the entry node and the descriptive fields are as they were, and
\* NodeCount is one more
C12_AddNodeFrame ==
    (last.op = "AddNode" /\ last.err = Nil) =>
        LET id == GetID(last.node)
            pre == last.pre
        IN  /\ ~MapHas(pre.Nodes, id)
            /\ DOMAIN g.Nodes.m = DOMAIN pre.Nodes.m \cup {id}
            /\ g.Nodes.m[id] = last.node
            /\ \A k \in DOMAIN pre.Nodes.m : g.Nodes.m[k] = pre.Nodes.m[k]
            /\ g.Nodes.isNil = pre.Nodes.isNil
            /\ g.Edges = pre.Edges
            /\ g.EntryNode = pre.EntryNode
            /\ g.ID = pre.ID
            /\ g.Name = pre.Name
            /\ g.Description = pre.Description
            /\ g.Metadata = pre.Metadata
            /\ g.Version = pre.Version
            /\ NodeCount(g) = NodeCount(pre) + 1

\* a third node was added to a graph with two nodes, an edge and no entry node
C12_Witness ==
    /\ last.op = "AddNode"
    /\ last.err = Nil
    /\ NodeCount(last.pre) = 2
    /\ Len(last.pre.Edges) >= 1
    /\ last.pre.EntryNode = ""
    /\ NodeCount(g) = 3

\* C13: GetOutgoingEdges(id) returns exactly the edges whose source is id and
\* GetIncomingEdges(id) exactly those whose target is id, each in insertion
\* order, an empty result when none matches, and the graph is unchanged
C13_EdgesOfNode ==
    (last.op \in {"GetOutgoingEdges", "GetIncomingEdges"} /\ last.err = Nil) =>
        LET E == last.pre.Edges
            End(edge) == IF last.op = "GetOutgoingEdges" THEN edge.From ELSE edge.To
            hits == {i \in 1..Len(E) : End(E[i]) = last.id}
        IN  /\ Len(last.rets) = Cardinality(hits)
            /\ \A j \in 1..Len(last.rets) : last.rets[j] = E[Nth(hits, j)]
            /\ (hits = {} => last.rets = <<>>)
            /\ g = last.pre

\* GetIncomingEdges returned one of the two edges of the graph, the second
C13_Witness ==
    /\ last.op = "GetIncomingEdges"
    /\ Len(last.pre.Edges) = 2
    /\ Len(last.rets) = 1
    /\ last.rets[1] = last.pre.Edges[2]
    /\ last.pre.Edges[1] # last.pre.Edges[2]

\* C14: RouterNode.Validate returns nil exactly when the id is non-empty, the
\* router has a route or a default route, and every route has a non-empty
\* target; no routes and no default route fails, no routes and default
\* route "x" passes, default route "x" with a route of empty target fails
C14_RouterValidateIff ==
    /\ last.op = "RouterNode.Validate" =>
          (last.err = Nil <=>
              /\ last.node.ID # ""
              /\ (Len(last.node.Routes) > 0 \/ last.node.DefaultRoute # "")
              /\ \A i \in 1..Len(last.node.Routes) : last.node.Routes[i] # "")
    /\ RouterNodeValidate(RouterNode(8, "router-1", <<>>, "")) # Nil
    /\ RouterNodeValidate(RouterNode(8, "router-1", <<>>, "x")) = Nil
    /\ RouterNodeValidate(RouterNode(8, "router-1", <<"">>, "x")) # Nil

\* a router with a default route and two routes, the second without a
\* target, was refused
C14_Witness ==
    /\ last.op = "RouterNode.Validate"
    /\ last.err # Nil
    /\ last.node.ID # ""
    /\ last.node.DefaultRoute = "x"
    /\ Len(last.node.Routes) = 2
    /\ last.node.Routes[1] # ""
    /\ last.node.Routes[2] = ""

\* C15: after any sequence of Set and Delete, Has(k) is true exactly when the
\* last operation on k was a Set, Get(k) is the value of that Set and nil for
\* an absent key, Size is the number of keys Has is true for, and Delete of
\* an absent key changes nothing
C15_SetDelete ==
    LET s == state.s
        call == state.last
    IN  /\ \A k \in StateKeys :
              /\ Has(s, k) <=> state.hist[k].op = "Set"
              /\ Get(s, k) = IF state.hist[k].op = "Set" THEN state.hist[k].value
                             ELSE NilValue
        /\ Size(s) = Cardinality({k \in StateKeys : Has(s, k)})
        /\ call.op = "Has" => (call.has <=> state.hist[call.key].op = "Set")
        /\ call.op = "Get" =>
              call.ret = IF state.hist[call.key].op = "Set"
                         THEN state.hist[call.key].value ELSE NilValue
        /\ call.op = "Size" =>
              call.size = Cardinality({k \in StateKeys : state.hist[k].op = "Set"})
        /\ (call.op = "Delete" /\ ~MapHas(call.pre.s, call.key)) => s = call.pre.s

\* Has answered true for a key whose last operation was a Set of nil, while
\* the last operation on the other key was a Delete
C15_Witness ==
    /\ state.last.op = "Has"
    /\ state.last.has
    /\ state.hist[state.last.key] = [op |-> "Set", value |-> NilValue]
    /\ \E k \in StateKeys : state.hist[k].op = "Delete"

\* the same dynamic type and the same content
SameValue(v, w) == v.type = w.type /\ v.str = w.str /\ v.num = w.num /\ v.m = w.m

\* C16: Copy returns a state with the keys and the values of the original,
\* sharing no nested map with it, and a later Set, Delete or Clear on the
\* original leaves the copy as it was, as one on the copy leaves the original
C16_CopySameAndIndependent ==
    LET call == state.last
    IN  /\ call.op = "Copy" =>
              /\ call.err = Nil
              /\ Keys(state.copy) = Keys(call.pre.s)
              /\ \A k \in Keys(call.pre.s) : SameValue(state.copy.m[k], call.pre.s.m[k])
              /\ Refs(state.copy) \cap Refs(state.s) = {}
              /\ state.s = call.pre.s
        /\ call.op \in {"Set", "Delete", "Clear"} => state.copy = call.pre.copy
        /\ call.op \in {"CopySet", "CopyDelete"} => state.s = call.pre.s

\* C17: after s.Merge(o) every key of o is in s with o's value, a key only in
\* s keeps its value, s has no other key, o is unchanged, and merging o
\* again changes nothing
C17_Merge ==
    LET call == state.last
        s == state.s
    IN  (call.op = "Merge" /\ call.err = Nil) =>
            /\ \A k \in Keys(call.pre.other) :
                  Has(s, k) /\ Get(s, k) = Get(call.pre.other, k)
            /\ \A k \in Keys(call.pre.s) \ Keys(call.pre.other) :
                  Has(s, k) /\ Get(s, k) = Get(call.pre.s, k)
            /\ Keys(s) = Keys(call.pre.s) \cup Keys(call.pre.other)
            /\ state.other = call.pre.other
            /\ Merge(s, state.other) = StateOutcome(s, Nil)

\* a merge replaced the value of a key both states had and kept a key that
\* only the receiver had
C17_Witness ==
    LET call == state.last
    IN  /\ call.op = "Merge"
        /\ call.err = Nil
        /\ \E k \in Keys(call.pre.s) \cap Keys(call.pre.other) :
              call.pre.s.m[k] # call.pre.other.m[k]
        /\ Keys(call.pre.s) \ Keys(call.pre.other) # {}
        /\ state.s # call.pre.s

\* the span at the top of the chain of contexts span i was started through
RECURSIVE RootOf(_)
RootOf(i) == IF tracer.spans[i].ctx = 0 THEN i ELSE RootOf(tracer.spans[i].ctx)

\* C18: a span started from a context without a span is a root, with a
\* non-empty TraceID and SpanID and an empty ParentSpanID; a span started
\* from the context another StartSpan returned has that span's TraceID and
\* its SpanID as ParentSpanID, so a chain of spans shares the TraceID of its
\* root and siblings share the TraceID and ParentSpanID
C18_SpanLineage ==
    LET spans == tracer.spans
    IN  /\ \A i \in 1..Len(spans) :
              LET c == spans[i].Context
                  from == spans[i].ctx
              IN  /\ from = 0 =>
                        /\ c.TraceID # EmptyString
                        /\ c.SpanID # EmptyString
                        /\ c.ParentSpanID = EmptyString
                  /\ from # 0 =>
                        /\ c.TraceID = spans[from].Context.TraceID
                        /\ c.ParentSpanID = spans[from].Context.SpanID
                  /\ c.TraceID = spans[RootOf(i)].Context.TraceID
        /\ \A i, j \in 1..Len(spans) :
              (spans[i].ctx = spans[j].ctx /\ spans[i].ctx # 0) =>
                  /\ spans[i].Context.TraceID = spans[j].Context.TraceID
                  /\ spans[i].Context.ParentSpanID = spans[j].Context.ParentSpanID

\* a root, its child and the child's child were started
C18_Witness ==
    /\ Len(tracer.spans) = 3
    /\ tracer.spans[1].ctx = 0
    /\ tracer.spans[2].ctx = 1
    /\ tracer.spans[3].ctx = 2
    /\ tracer.last.op = "StartSpan"

\* C19: a span starts unset; EndSpan makes an unset span ok and leaves any
\* other status as it is, so a span marked by SetError or SetStatus(error)
\* is still error after EndSpan and a span never marked is ok after it
C19_EndSpanStatus ==
    LET call == tracer.last
        status == tracer.spans[call.span].Status
    IN  /\ call.op = "StartSpan" => status = SpanStatusUnset
        /\ call.op = "EndSpan" =>
              status = IF call.before = SpanStatusUnset THEN SpanStatusOK
                       ELSE call.before
        /\ call.op = "SetError" => status = SpanStatusError
        /\ call.op = "SetStatus" => status = call.status

\* EndSpan was called on a span that SetError had marked
C19_Witness ==
    /\ tracer.last.op = "EndSpan"
    /\ tracer.last.before = SpanStatusError
    /\ tracer.spans[tracer.last.span].Status = SpanStatusError
    /\ "error" \in tracer.spans[tracer.last.span].Tags

\* C20: GetEnvBool returns true for "true", "1", "yes" and "on" in any
\* spelling of upper and lower case, whatever the default, and returns the
\* default when the variable is unset, empty or holds a value that is none
\* of the recognised words
C20_CaseInsensitive ==
    env.called =>
        LET word == ToLower(Getenv(env))
        IN  /\ word \in TrueWords => env.result = TRUE
            /\ word \notin TrueWords \cup FalseWords => env.result = env.defaultValue

FailingChecks(gr) ==
    (IF gr.ID = "" THEN {1} ELSE {})
    \cup (IF MapLen(gr.Nodes) = 0 THEN {2} ELSE {})
    \cup (IF gr.EntryNode = "" THEN {3} ELSE {})
    \cup (IF GetNode(gr, gr.EntryNode) = NilNode THEN {4} ELSE {})
    \cup (IF \E k \in DOMAIN gr.Nodes.m : NodeValidate(gr.Nodes.m[k]) # Nil
          THEN {5} ELSE {})
    \cup (IF \E i \in 1..Len(gr.Edges) :
                \/ gr.Edges[i].isNil
                \/ EdgeValidate(gr.Edges[i]) # Nil
                \/ GetNode(gr, gr.Edges[i].From) = NilNode
                \/ GetNode(gr, gr.Edges[i].To) = NilNode
          THEN {6} ELSE {})

\* the check an outcome of Validate comes from
IsOutcomeOfCheck(err, n) ==
    IF n = 1 THEN IsValidationError(err) /\ err.field = "id"
    ELSE IF n = 2 THEN IsValidationError(err) /\ err.field = "nodes"
    ELSE IF n = 3
    THEN IsValidationError(err) /\ err.field = "entry_node"
         /\ err.msg = "graph must have an entry node"
    ELSE IF n = 4
    THEN IsValidationError(err) /\ err.field = "entry_node"
         /\ err.msg = "entry node does not exist"
    ELSE IF n = 5
    THEN \/ err.kind = "wrapped" /\ err.msg = "node validation failed"
         \/ err.kind = "panic"
    ELSE \/ err.kind = "wrapped" /\ err.msg = "edge validation failed"
         \/ IsValidationError(err) /\ err.field \in {"edge.from", "edge.to"}
         \/ err.kind = "panic"

\* C21: Validate looks at the id, the number of nodes, the entry node being
\* set, the entry node being a node, the nodes and the edges in that order
\* and ends with the outcome of the first check that fails, whatever other
\* checks fail too; it returns nil when none fails
C21_ValidateOrder ==
    last.op = "Validate" =>
        LET failing == FailingChecks(last.pre)
        IN  IF failing = {} THEN last.err = Nil
            ELSE IsOutcomeOfCheck(last.err, Nth(failing, 1))

\* Validate reported the nodes field on a graph with an id, no node, no
\* entry node and an edge that names missing nodes
C21_Witness ==
    /\ last.op = "Validate"
    /\ last.err.field = "nodes"
    /\ {2, 3, 4, 6} \subseteq FailingChecks(last.pre)

\* C22: every failure of AddEdge is a validation error that names the field
\* at fault: so for a nil edge and for an edge that fails its own
\* validation, with field edge.from for a source that is not a node and
\* edge.to for a target that is not a node when the source is one
C22_AddEdgeErrorsAreValidationErrors ==
    (last.op = "AddEdge" /\ last.err # Nil) =>
        /\ last.err.kind \in {"ValidationError", "wrapped"}
        /\ last.err.field # ""
        /\ (~last.edge.isNil /\ EdgeValidate(last.edge) = Nil) =>
              IF GetNode(last.pre, last.edge.From) = NilNode
              THEN IsValidationError(last.err) /\ last.err.field = "edge.from"
              ELSE IsValidationError(last.err) /\ last.err.field = "edge.to"

\* the positions, counted from 0, of the edges of gr that fail their own
\* validation or name a node that is not in gr
BadEdges(gr) ==
    {i \in 0..(Len(gr.Edges) - 1) :
        LET edge == gr.Edges[i + 1]
        IN  \/ edge.isNil
            \/ EdgeValidate(edge) # Nil
            \/ GetNode(gr, edge.From) = NilNode
            \/ GetNode(gr, edge.To) = NilNode}

\* C23: when Validate fails on an edge, for the edge's own validation or
\* for an endpoint that is not a node, the error is the one of the first
\* such edge of the sequence and carries the position of that edge
C23_EdgeErrorCarriesIndex ==
    (last.op = "Validate" /\ IsError(last.err)
        /\ FailingChecks(last.pre) = {6}) =>
        LET first == CHOOSE i \in BadEdges(last.pre) :
                         \A j \in BadEdges(last.pre) : i <= j
            edge == last.pre.Edges[first + 1]
        IN  /\ last.err.index = first
            /\ last.err.field =
                  IF EdgeValidate(edge) # Nil THEN EdgeValidate(edge).field
                  ELSE IF GetNode(last.pre, edge.From) = NilNode THEN "edge.from"
                  ELSE "edge.to"

\* C24: a successful AddEdge(e) leaves the edge sequence as it was with e
\* added at the end, so EdgeCount grows by one, and leaves the nodes, the
\* entry node and the other fields as they were
C24_AddEdgeAppends ==
    (last.op = "AddEdge" /\ last.err = Nil) =>
        /\ Len(g.Edges) = Len(last.pre.Edges) + 1
        /\ \A i \in 1..Len(last.pre.Edges) : g.Edges[i] = last.pre.Edges[i]
        /\ g.Edges[Len(g.Edges)] = last.edge
        /\ EdgeCount(g) = EdgeCount(last.pre) + 1
        /\ g.Nodes = last.pre.Nodes
        /\ g.EntryNode = last.pre.EntryNode
        /\ g.ID = last.pre.ID

\* an edge was added after a different one
C24_Witness ==
    /\ last.op = "AddEdge"
    /\ last.err = Nil
    /\ Len(g.Edges) = 2
    /\ g.Edges[1] # g.Edges[2]
    /\ g.Edges[2] = last.edge

\* every edge of gr joins two nodes of gr
EndpointsPresent(gr) ==
    \A i \in 1..Len(gr.Edges) :
        MapHas(gr.Nodes, gr.Edges[i].From) /\ MapHas(gr.Nodes, gr.Edges[i].To)

\* C25: when the callers of AddEdge(e) and RemoveNode(x) take a lock around
\* their calls, no state in which neither call is running has an edge with
\* an endpoint that is not a node; without the lock such a state is
\* reachable (the state C25_Witness describes)
C25_LockedKeepsEndpoints ==
    (calls.sync /\ calls.lock = "free") => EndpointsPresent(g)

\* without a lock both calls have returned, AddEdge(e) without error and
\* RemoveNode of an endpoint of e, and e is in the edge sequence with that
\* endpoint not among the nodes
C25_Witness ==
    /\ ~calls.sync
    /\ ~calls.fault
    /\ calls.adder.pc = "done"
    /\ calls.remover.pc = "done"
    /\ calls.adder.err = Nil
    /\ calls.remover.nodeID \in {calls.adder.edge.From, calls.adder.edge.To}
    /\ ~MapHas(g.Nodes, calls.remover.nodeID)
    /\ \E i \in 1..Len(g.Edges) : g.Edges[i] = calls.adder.edge

\* C26: in every graph reached from NewGraph by calls of AddNode, AddEdge and
\* RemoveNode, failed ones included, every edge has a non-empty from and to
\* that differ and are both keys of the nodes, and every key of the nodes is
\* the GetID of the node stored under it
C26_GraphInvariant ==
    /\ \A i \in 1..Len(g.Edges) :
          /\ ~g.Edges[i].isNil
          /\ g.Edges[i].From # ""
          /\ g.Edges[i].To # ""
          /\ g.Edges[i].From # g.Edges[i].To
          /\ MapHas(g.Nodes, g.Edges[i].From)
          /\ MapHas(g.Nodes, g.Edges[i].To)
    /\ \A k \in DOMAIN g.Nodes.m : GetID(MapGet(g.Nodes, k)) = k

\* a RemoveNode has just removed a node and its edge, and an edge between two
\* other nodes is still there
C26_Witness ==
    /\ last.op = "RemoveNode"
    /\ MapHas(last.pre.Nodes, last.id)
    /\ Len(last.pre.Edges) = 2
    /\ Len(g.Edges) = 1
    /\ MapLen(g.Nodes) = 2

\* C27: on a graph built by AddNode, AddEdge, RemoveNode and assignments to
\* EntryNode, Validate returns nil exactly when EntryNode is the identifier
\* of a node of the graph, and the failing check is never that of the nodes
\* (5) or of the edges (6)
C27_ValidIffEntryNodePresent ==
    last.op = "Validate" =>
        /\ (last.err = Nil) <=> MapHas(last.pre.Nodes, last.pre.EntryNode)
        /\ last.err # Nil =>
              /\ \E n \in 1..4 : IsOutcomeOfCheck(last.err, n)
              /\ ~IsOutcomeOfCheck(last.err, 5)
              /\ ~IsOutcomeOfCheck(last.err, 6)
              /\ FailingChecks(last.pre) \subseteq 1..4

\* Validate has failed on a graph with nodes and edges whose entry node was
\* removed
C27_Witness ==
    /\ last.op = "Validate"
    /\ last.err # Nil
    /\ Len(g.Edges) > 0
    /\ g.EntryNode \in removed
    /\ ~MapHas(g.Nodes, g.EntryNode)

\* the number of edges of s from node from to node to
Parallel(s, from, to) ==
    Cardinality({i \in 1..Len(s) : s[i].From = from /\ s[i].To = to})

\* C28: AddEdge of an edge between two nodes that an edge already joins
\* succeeds and adds one edge; GetOutgoingEdges of the source and
\* GetIncomingEdges of the target return every one of them, and one
\* RemoveNode of either endpoint removes them all
C28_ParallelEdgesAllowed ==
    (/\ last.op = "AddEdge"
     /\ ~last.edge.isNil
     /\ Parallel(last.pre.Edges, last.edge.From, last.edge.To) > 0)
    => LET from == last.edge.From
           to == last.edge.To
           n == Parallel(last.pre.Edges, from, to) + 1
       IN  /\ last.err = Nil
           /\ EdgeCount(g) = EdgeCount(last.pre) + 1
           /\ Parallel(g.Edges, from, to) = n
           /\ Parallel(GetOutgoingEdges(g, from).edges, from, to) = n
           /\ Parallel(GetIncomingEdges(g, to).edges, from, to) = n
           /\ Parallel(RemoveNode(g, from).g.Edges, from, to) = 0
           /\ Parallel(RemoveNode(g, to).g.Edges, from, to) = 0

\* a second edge from a to b has just been added
C28_Witness ==
    /\ last.op = "AddEdge"
    /\ last.err = Nil
    /\ Len(g.Edges) = 2
    /\ g.Edges[1].From = g.Edges[2].From
    /\ g.Edges[1].To = g.Edges[2].To

\* the identifiers a router names: its routes' targets and its default route
RouteNames(n) ==
    {n.Routes[i] : i \in 1..Len(n.Routes)}
    \cup (IF n.DefaultRoute = "" THEN {} ELSE {n.DefaultRoute})

\* the keys of the routers of gr that name id
RoutersTo(gr, id) ==
    {k \in DOMAIN gr.Nodes.m :
        gr.Nodes.m[k].type = NodeTypeRouter /\ id \in RouteNames(gr.Nodes.m[k])}

\* a router of gr names an identifier that is not a node of gr
HasDanglingRoute(gr) ==
    \E k \in DOMAIN gr.Nodes.m :
        /\ gr.Nodes.m[k].type = NodeTypeRouter
        /\ \E target \in RouteNames(gr.Nodes.m[k]) : ~MapHas(gr.Nodes, target)

\* C29: Validate returns nil on a graph that passes its six checks and has a
\* router naming an identifier that is not a node; RemoveNode of a node
\* other than the entry node that a router routes to, on a graph that passes
\* Validate, leaves that router as it was and the graph passing Validate
C29_RouterTargetsNotChecked ==
    /\ (/\ last.op = "Validate"
        /\ FailingChecks(last.pre) = {}
        /\ HasDanglingRoute(last.pre))
       => last.err = Nil
    /\ (/\ last.op = "RemoveNode"
        /\ MapHas(last.pre.Nodes, last.id)
        /\ last.id # last.pre.EntryNode
        /\ Validate(last.pre) = {Nil}
        /\ RoutersTo(last.pre, last.id) \ {last.id} # {})
       => /\ \A k \in RoutersTo(last.pre, last.id) \ {last.id} :
                MapGet(g.Nodes, k) = MapGet(last.pre.Nodes, k)
          /\ HasDanglingRoute(g)
          /\ Validate(g) = {Nil}

\* node b, which router c routes to, has just been removed from a graph with
\* entry node a and an edge from a to c, and the graph passes Validate
C29_Witness ==
    /\ last.op = "RemoveNode"
    /\ last.id = "b"
    /\ MapHas(last.pre.Nodes, "b")
    /\ Validate(last.pre) = {Nil}
    /\ "c" \in RoutersTo(g, "b")
    /\ g.EntryNode = "a"
    /\ Len(g.Edges) > 0
    /\ Validate(g) = {Nil}

====
